---- MODULE Spec2Model ----
(***************************************************************************)
(* Model of hue's fragment/page router (hue.router.Router), its view       *)
(* wrapper, and the Django URL binder / dispatcher (hue_django.views).     *)
(*                                                                         *)
(* Python values are modelled as records with a kind field "k"; a dict is  *)
(* a set of <<key, value>> pairs; text that the code inspects character by *)
(* character (paths, content types) is a sequence of one-character         *)
(* strings.                                                                *)
(***************************************************************************)
EXTENDS Integers, Sequences, FiniteSets, TLC

\* Python's None.
None == "<None>"

(***************************************************************************)
(* Bounds of the model.                                                    *)
(***************************************************************************)
\* Largest number of decorator registrations on the router.
MaxRoutes == 2
\* Largest number of accesses of the view's `urls` attribute.
MaxUrlsAccesses == 2
\* Largest number of changes a caller makes to one list it got from
\* Router.routes.
MaxEdits == 2
\* Largest length of a path given to a path operation on its own.
MaxPathLen == 4
\* Largest number of segments of a path template given to a path parser.
MaxSegments == 3
\* Largest number of requests handled concurrently.
MaxTasks == 2
\* Largest number of arguments given to classnames.
MaxArgs == 2

(***************************************************************************)
(* Python dicts as sets of <<key, value>> pairs.                           *)
(***************************************************************************)
EmptyDict == {}

DictKeys(d) == {p[1] : p \in d}

\* dict.get(key) with the default None.
DictGet(d, key) ==
    IF key \in DictKeys(d) THEN (CHOOSE p \in d : p[1] = key)[2] ELSE None

\* d[key] = value
DictSet(d, key, value) == {p \in d : p[1] # key} \cup {<<key, value>>}

\* A dict holding the given header, or nothing when the value is None.
Header(name, value) == IF value = None THEN {} ELSE {<<name, value>>}

(***************************************************************************)
(* Text as sequences of characters.                                        *)
(***************************************************************************)
\* Python's `needle in hay` for strings.
Contains(needle, hay) ==
    \E i \in 1..(Len(hay) - Len(needle) + 1) :
        SubSeq(hay, i, i + Len(needle) - 1) = needle

APPLICATION_JSON ==
    <<"a","p","p","l","i","c","a","t","i","o","n","/","j","s","o","n">>

(***************************************************************************)
(* Components and the renderer.                                            *)
(***************************************************************************)
DEFAULT_STATUS_CODE == 200

\* A text leaf.
Text(s) == [k |-> "text", v |-> s]

\* htmy's html.<tag>(child, id=...), e.g. html.div(component, id=target).
Element(tag, child, id) == [k |-> "element", tag |-> tag, id |-> id, child |-> child]

html_div(child, id) == Element("div", child, id)

\* HueResponse(**kw): the dataclass constructor with its field defaults.
HueResponse(kw) ==
    [k           |-> "HueResponse",
     component   |-> kw.component,
     target      |-> IF "target" \in DOMAIN kw THEN kw.target ELSE None,
     status_code |-> IF "status_code" \in DOMAIN kw THEN kw.status_code
                     ELSE DEFAULT_STATUS_CODE]

\* Truth value of an optional string: None and "" are false.
Truthy(s) == s # None /\ s # ""

\* Faulty htmy: the target test is dropped and the component is always
\* wrapped.
htmy_always_wrapped(self) == html_div(self.component, self.target)

\* HueResponse.htmy
htmy(self) ==
    IF Truthy(self.target) THEN html_div(self.component, self.target)
    ELSE self.component

\* The markup of a component tree; the renderer calls htmy() on every
\* component that has one.
RECURSIVE RenderNode(_)
RenderNode(c) ==
    CASE c.k = "text" -> c.v
      [] c.k = "element" ->
            "<" \o c.tag
                \o (IF c.id = None THEN "" ELSE " id=\"" \o c.id \o "\"")
                \o ">" \o RenderNode(c.child) \o "</" \o c.tag \o ">"
      [] c.k = "HueResponse" -> RenderNode(htmy(c))

\* render_tree(component, context_args=...)
render_tree(component, context_args) == RenderNode(component)

\* HueContext(**context_args)
HueContext(context_args) ==
    [k |-> "HueContext",
     request    |-> context_args.request,
     csrf_token |-> context_args.csrf_token]

(***************************************************************************)
(* Requests.  A MockRequest (hue-python tests) carries headers, body,      *)
(* content_type and form_data; a Django HttpRequest carries method, META,  *)
(* body, content_type and POST.                                            *)
(***************************************************************************)
\* Values of the X-Requested-With header (None: header not sent).
XRequestedWithValues == {None, "XMLHttpRequest", "xmlhttprequest"}
\* Values of the X-Alpine-Request header (None: header not sent).
XAlpineValues == {None, "true", "True"}

\* Header containers: a dict, or an object without a get operation.
DictHeaders(xrw, alpine) ==
    [k |-> "dict",
     items |-> Header("X-Requested-With", xrw) \cup Header("X-Alpine-Request", alpine)]

ListHeaders(xrw, alpine) ==
    [k |-> "list",
     items |-> Header("X-Requested-With", xrw) \cup Header("X-Alpine-Request", alpine)]

\* Faulty classifier: the X-Alpine-Request header is not looked at.
_is_ajax_request_xrw_only(request) ==
    LET headers == IF "headers" \in DOMAIN request THEN request.headers
                   ELSE [k |-> "dict", items |-> EmptyDict]
    IN  IF headers.k = "dict"
        THEN DictGet(headers.items, "X-Requested-With") = "XMLHttpRequest"
        ELSE FALSE

\* Router._is_ajax_request (framework-agnostic)
_is_ajax_request(request) ==
    LET headers == IF "headers" \in DOMAIN request THEN request.headers
                   ELSE [k |-> "dict", items |-> EmptyDict]
    IN  IF headers.k = "dict"
        THEN LET is_ajax_req ==
                     DictGet(headers.items, "X-Requested-With") = "XMLHttpRequest"
                 is_alpine_ajax_req ==
                     DictGet(headers.items, "X-Alpine-Request") = "true"
             IN  is_ajax_req \/ is_alpine_ajax_req
        ELSE FALSE

\* hue_django Router._is_ajax_request
django_is_ajax_request(request) ==
    LET is_ajax_req ==
            DictGet(request.META, "HTTP_X_REQUESTED_WITH") = "XMLHttpRequest"
        is_alpine_ajax_req ==
            DictGet(request.META, "HTTP_X_ALPINE_REQUEST") = "true"
    IN  is_ajax_req \/ is_alpine_ajax_req

\* The classifier of the router that owns the route: the Django router
\* overrides the base one.
IsAjax(request) ==
    IF request.k = "HttpRequest" THEN django_is_ajax_request(request)
    ELSE _is_ajax_request(request)

\* _get_request_content_type (MockRouter / Django Router)
\* (Django: `request.content_type or ""`; content_type is "" when not sent)
_get_request_content_type(request) == request.content_type

\* _get_request_body
_get_request_body(request) == request.body

\* _get_form_data: request.form_data, or request.POST.dict() in Django
_get_form_data(request) ==
    IF request.k = "HttpRequest" THEN request.POST ELSE request.form_data

\* _get_context_args: request and CSRF token (get_token(request) in Django,
\* a fixed token in the test router).
_get_context_args(request) ==
    [request    |-> request,
     csrf_token |-> IF request.k = "HttpRequest" THEN request.csrf
                    ELSE "test-csrf-token"]

(***************************************************************************)
(* Request bodies: json.loads and pydantic validation.                     *)
(***************************************************************************)
\* Decoded JSON scalars.
StrV(s) == [t |-> "str", v |-> s]
IntV(s) == [t |-> "int", v |-> s]

\* Strings that parse as integers.
NumericStrings == {"42"}

\* A decoded JSON object / array.
JsonObject(items) == [k |-> "dict", items |-> items]
JsonArray == [k |-> "list", items |-> {}]

\* Raw request bodies.
BODY_EMPTY == ""
BODY_LOGIN == "{\"email\": \"a@b.com\", \"password\": \"p\"}"
BODY_NO_PASSWORD == "{\"email\": \"a@b.com\"}"
BODY_INT_EMAIL == "{\"email\": 1, \"password\": \"p\"}"
BODY_ARRAY == "[]"
BODY_NOT_JSON == "not valid json"
BODY_TRUNCATED == "{\"email\": "

RawBodies ==
    {BODY_EMPTY, BODY_LOGIN, BODY_NO_PASSWORD, BODY_INT_EMAIL, BODY_ARRAY,
     BODY_NOT_JSON, BODY_TRUNCATED}

\* json.loads on the bodies above: the decoded value, or JSONDecodeError.
json_loads(raw) ==
    CASE raw = BODY_LOGIN ->
            [k |-> "ok", data |-> JsonObject({<<"email", StrV("a@b.com")>>,
                                              <<"password", StrV("p")>>})]
      [] raw = BODY_NO_PASSWORD ->
            [k |-> "ok", data |-> JsonObject({<<"email", StrV("a@b.com")>>})]
      [] raw = BODY_INT_EMAIL ->
            [k |-> "ok", data |-> JsonObject({<<"email", IntV("1")>>,
                                              <<"password", StrV("p")>>})]
      [] raw = BODY_ARRAY -> [k |-> "ok", data |-> JsonArray]
      [] OTHER -> [k |-> "JSONDecodeError", msg |-> "Expecting value"]

\* Declared body types (dataclasses / pydantic models): ordered fields.
Field(name, type, required, default) ==
    [name |-> name, type |-> type, required |-> required, default |-> default]

NoBody == [k |-> "None"]

LoginCredentials ==
    [k |-> "type", name |-> "LoginCredentials",
     fields |-> <<Field("email", "str", TRUE, StrV("")),
                  Field("password", "str", TRUE, StrV(""))>>]

OptionalBody ==
    [k |-> "type", name |-> "OptionalBody",
     fields |-> <<Field("name", "str", FALSE, StrV("default"))>>]

\* Faulty validation: a missing required field is not reported.
FieldErrors_no_missing(f, items) ==
    IF f.name \notin DictKeys(items) THEN <<>>
    ELSE IF DictGet(items, f.name).t = "str" THEN <<>>
    ELSE <<[type |-> "string_type", loc |-> f.name]>>

\* Errors of one field, as pydantic reports them.
FieldErrors(f, items) ==
    IF f.name \notin DictKeys(items)
    THEN (IF f.required THEN <<[type |-> "missing", loc |-> f.name]>> ELSE <<>>)
    ELSE LET v == DictGet(items, f.name)
         IN  CASE f.type = "str" ->
                    IF v.t = "str" THEN <<>>
                    ELSE <<[type |-> "string_type", loc |-> f.name]>>
               [] f.type = "int" ->
                    IF v.t = "int" \/ (v.t = "str" /\ v.v \in NumericStrings)
                    THEN <<>>
                    ELSE <<[type |-> "int_parsing", loc |-> f.name]>>

RECURSIVE AllFieldErrors(_, _)
AllFieldErrors(fields, items) ==
    IF fields = <<>> THEN <<>>
    ELSE FieldErrors(Head(fields), items) \o AllFieldErrors(Tail(fields), items)

\* The validated value of one field.
FieldValue(f, items) ==
    IF f.name \notin DictKeys(items) THEN f.default
    ELSE IF f.type = "int" THEN IntV(DictGet(items, f.name).v)
    ELSE DictGet(items, f.name)

\* TypeAdapter(body_type).validate_python(data)
validate_python(body_type, data) ==
    IF data.k # "dict"
    THEN [k |-> "ValidationError",
          errors |-> <<[type |-> "dataclass_type", loc |-> ""]>>]
    ELSE LET errors == AllFieldErrors(body_type.fields, data.items)
         IN  IF errors # <<>>
             THEN [k |-> "ValidationError", errors |-> errors]
             ELSE [k |-> "ok",
                   value |-> [k |-> "body", type |-> body_type.name,
                              fields |-> {<<body_type.fields[i].name,
                                            FieldValue(body_type.fields[i], data.items)>> :
                                          i \in 1..Len(body_type.fields)}]]

\* raise BodyValidationError(errors=...)
BodyValidationError(errors) ==
    [k |-> "raise", exc |-> "BodyValidationError", errors |-> errors]

\* Faulty JSON error: the entry carries pydantic's generic error type.
JsonInvalidError_value_error(msg) ==
    BodyValidationError(<<[type |-> "value_error", msg |-> msg]>>)

\* The error raised for a JSON syntax error.
JsonInvalidError(msg) ==
    BodyValidationError(<<[type |-> "json_invalid", msg |-> msg]>>)

\* Faulty _parse_body: a non-empty raw body is decoded as JSON whatever the
\* content type.
_parse_body_sniffing(request, body_type) ==
    LET raw_body == _get_request_body(request)
        is_json == raw_body # ""
        decoded == IF is_json THEN json_loads(raw_body)
                   ELSE [k |-> "ok", data |-> JsonObject(_get_form_data(request))]
    IN  IF decoded.k = "JSONDecodeError"
        THEN [res |-> JsonInvalidError(decoded.msg),
              json_loads_called |-> is_json, used |-> "json"]
        ELSE LET validated == validate_python(body_type, decoded.data)
             IN  [res |-> IF validated.k = "ValidationError"
                          THEN BodyValidationError(validated.errors)
                          ELSE validated,
                  json_loads_called |-> is_json,
                  used |-> IF is_json THEN "json" ELSE "form"]

\* Router._parse_body: the parsed value or the raised BodyValidationError, and
\* whether json.loads ran.
_parse_body(request, body_type) ==
    LET content_type == _get_request_content_type(request)
        is_json == Contains(APPLICATION_JSON, content_type)
        raw_body == _get_request_body(request)
        loads == is_json /\ raw_body # ""
        decoded == IF is_json
                   THEN (IF raw_body # "" THEN json_loads(raw_body)
                         ELSE [k |-> "ok", data |-> JsonObject(EmptyDict)])
                   ELSE [k |-> "ok", data |-> JsonObject(_get_form_data(request))]
    IN  IF decoded.k = "JSONDecodeError"
        THEN [res |-> JsonInvalidError(decoded.msg),
              json_loads_called |-> loads, used |-> "json"]
        ELSE LET validated == validate_python(body_type, decoded.data)
             IN  [res |-> IF validated.k = "ValidationError"
                          THEN BodyValidationError(validated.errors)
                          ELSE validated,
                  json_loads_called |-> loads,
                  used |-> IF is_json THEN "json" ELSE "form"]

(***************************************************************************)
(* State.                                                                  *)
(***************************************************************************)
VARIABLES
    routes,         \* Router._routes of the view's router
    url_patterns,   \* the URL entries produced by the last access of `urls`
    urls_accesses,  \* number of accesses of `urls` so far
    urls_result,    \* outcome of the last access of `urls`
    view,           \* the view class: its base, router and index attributes
    dj,             \* the Django request being dispatched (view_func)
    inv,            \* the invocation of a wrapped view in progress
    decorated,      \* what the route decorators returned, in registration order
    got,            \* the list a caller got from Router.routes
    calc,           \* a path operation applied on its own
    conc            \* requests handled concurrently: their tasks and the view
                    \* instances constructed for them

vars ==
    <<routes, url_patterns, urls_accesses, urls_result, view, dj, inv,
      decorated, got, calc, conc>>

NoValue == [k |-> "None"]

\* raise <exc>()
Raise(exc) == [k |-> "raise", exc |-> exc]

\* RawResponse(response=...)
RawResponse(response) == [k |-> "RawResponse", response |-> response]

\* No wrapped view is running.
IdleInv ==
    [pc |-> "idle", caller |-> "none", view_func |-> "", require_ajax |-> FALSE,
     body_type |-> NoBody, request |-> NoValue, kwargs |-> EmptyDict,
     context |-> NoValue, parsed |-> NoValue,
     ajax_checks |-> 0, parse_calls |-> 0, json_loads_calls |-> 0,
     context_builds |-> 0, handler_calls |-> 0, render_calls |-> 0,
     view_func_result |-> NoValue, component |-> NoValue,
     status_code |-> 0, result |-> NoValue]

\* No list has been read from Router.routes.
NoList == [k |-> "None"]

\* No path operation has been applied.
NoCalc == [k |-> "None"]

\* No request is being handled concurrently.
NoTasks == [k |-> "None"]

\* No Django request is being dispatched.
IdleDj ==
    [pc |-> "idle", request |-> NoValue, entry |-> 0, kwargs |-> EmptyDict,
     matching_route |-> 0, handler_kwargs |-> EmptyDict, outcome |-> NoValue]

(***************************************************************************)
(* The view wrapper, Router._wrap_view.                                    *)
(***************************************************************************)
\* View functions: their name and type hints.
ViewFunc(name, body_type) == [name |-> name, body_type |-> body_type]

\* get_type_hints(view_func).get("body")
BodyTypeOf(view_func) == view_func.body_type

\* _wrap_view(view_func, require_ajax): the closure of wrapped_view.
_wrap_view(view_func, require_ajax) ==
    [view_func    |-> view_func.name,
     require_ajax |-> require_ajax,
     body_type    |-> BodyTypeOf(view_func)]

\* The keyword "body".
BODY_KW == <<"b", "o", "d", "y">>

\* Faulty AJAX check: the negation of the classifier is lost.
AjaxRejected_inverted(wrapped, request) == wrapped.require_ajax /\ IsAjax(request)

\* Faulty AJAX check: the require_ajax flag of the route is ignored.
AjaxRejected_flag_ignored(wrapped, request) == ~IsAjax(request)

\* The AJAX requirement of wrapped_view fails for the request.
AjaxRejected(wrapped, request) == wrapped.require_ajax /\ ~IsAjax(request)

\* wrapped_view up to its first suspension point: the AJAX check, body
\* parsing, the context and the call of the view function.
WrappedViewEnter(caller, wrapped, request, kwargs) ==
    LET started == [IdleInv EXCEPT !.caller = caller,
                                   !.view_func = wrapped.view_func,
                                   !.require_ajax = wrapped.require_ajax,
                                   !.body_type = wrapped.body_type,
                                   !.request = request,
                                   !.kwargs = kwargs,
                                   !.ajax_checks = IF wrapped.require_ajax THEN 1 ELSE 0]
    IN  IF AjaxRejected(wrapped, request)
        THEN [started EXCEPT !.pc = "done", !.result = Raise("AJAXRequiredError")]
        ELSE LET typed == wrapped.body_type # NoBody
                 parse == IF typed THEN _parse_body(request, wrapped.body_type)
                          ELSE [res |-> NoValue, json_loads_called |-> FALSE,
                                used |-> "none"]
                 parsing == [started EXCEPT
                               !.parse_calls = IF typed THEN 1 ELSE 0,
                               !.json_loads_calls =
                                   IF parse.json_loads_called THEN 1 ELSE 0,
                               !.parsed = [k |-> "parsed", used |-> parse.used]]
             IN  IF parse.res.k = "raise"
                 THEN [parsing EXCEPT !.pc = "done", !.result = parse.res]
                 ELSE [parsing EXCEPT
                         !.pc = "handler",
                         !.kwargs = IF typed
                                    THEN DictSet(kwargs, BODY_KW, parse.res.value)
                                    ELSE kwargs,
                         !.context = HueContext(_get_context_args(request)),
                         !.context_builds = 1,
                         !.handler_calls = 1]

\* Faulty raw-response test: only a plain HttpResponse is recognised.
IsRawResponse_by_class(view_func_result) ==
    /\ "status_code" \in DOMAIN view_func_result
    /\ view_func_result.k = "HttpResponse"

\* A raw framework response: it has a status_code attribute and is not a
\* HueResponse.
IsRawResponse(view_func_result) ==
    /\ "status_code" \in DOMAIN view_func_result
    /\ view_func_result.k # "HueResponse"

\* Faulty status: the status code of a HueResponse is not used.
StatusOf_default(view_func_result) == DEFAULT_STATUS_CODE

\* The status code of a result that is rendered.
StatusOf(view_func_result) ==
    IF view_func_result.k = "HueResponse" THEN view_func_result.status_code
    ELSE DEFAULT_STATUS_CODE

\* Faulty wrapper: a view function that answers with an error status is
\* called a second time.
WrappedViewResult_retry(call, view_func_result) ==
    IF IsRawResponse(view_func_result)
    THEN [call EXCEPT !.pc = "done",
                      !.view_func_result = view_func_result,
                      !.result = RawResponse(view_func_result)]
    ELSE IF StatusOf(view_func_result) >= 400 /\ call.handler_calls < 2
    THEN [call EXCEPT !.handler_calls = @ + 1]
    ELSE [call EXCEPT !.pc = "render",
                      !.view_func_result = view_func_result,
                      !.component = view_func_result,
                      !.status_code = StatusOf(view_func_result),
                      !.context_builds = @ + 1,
                      !.render_calls = @ + 1]

\* wrapped_view once the view function has returned: a raw framework
\* response passes through, anything else goes to the renderer.
WrappedViewResult(call, view_func_result) ==
    IF IsRawResponse(view_func_result)
    THEN [call EXCEPT !.pc = "done",
                      !.view_func_result = view_func_result,
                      !.result = RawResponse(view_func_result)]
    ELSE [call EXCEPT !.pc = "render",
                      !.view_func_result = view_func_result,
                      !.component = view_func_result,
                      !.status_code = StatusOf(view_func_result),
                      !.context_builds = @ + 1,
                      !.render_calls = @ + 1]

\* wrapped_view once the renderer has returned.
WrappedViewRendered(call) ==
    [call EXCEPT !.pc = "done",
                 !.result = [k |-> "tuple",
                             html |-> render_tree(call.component,
                                                  _get_context_args(call.request)),
                             status_code |-> call.status_code]]

(***************************************************************************)
(* Route registration, Router._request and its partialmethods.             *)
(***************************************************************************)
\* str.upper() on the method names used.
Upper(m) ==
    CASE m = "get" -> "GET"
      [] m = "post" -> "POST"
      [] m = "delete" -> "DELETE"
      [] OTHER -> m

\* str.lower() on the view function names used.
Lower(n) ==
    CASE n = "Items" -> "items"
      [] OTHER -> n

\* Faulty normalisation: one leading slash is removed (removeprefix).
_normalize_path_one_slash(path) ==
    IF path # <<>> /\ Head(path) = "/" THEN Tail(path) ELSE path

\* Router._normalize_path: path.lstrip("/")
RECURSIVE _normalize_path(_)
_normalize_path(path) ==
    IF path # <<>> /\ Head(path) = "/" THEN _normalize_path(Tail(path))
    ELSE path

\* Characters matched by \w.
WordChars == {"a", "b", "i", "n", "t"}

\* Length of the longest run of \w characters of s that starts at i.
RECURSIVE WordRun(_, _)
WordRun(s, i) ==
    IF i <= Len(s) /\ s[i] \in WordChars THEN 1 + WordRun(s, i + 1) ELSE 0

CharAt(s, i) == IF i >= 1 /\ i <= Len(s) THEN s[i] ELSE ""

\* A match of <(\w+):(\w+)> that starts at i: its name group and its end.
ParamMatchAt(s, i) ==
    LET n1 == WordRun(s, i + 1)
        n2 == WordRun(s, i + 2 + n1)
    IN  [ok   |-> /\ CharAt(s, i) = "<"
                  /\ n1 >= 1
                  /\ CharAt(s, i + 1 + n1) = ":"
                  /\ n2 >= 1
                  /\ CharAt(s, i + 2 + n1 + n2) = ">",
         name |-> SubSeq(s, i + 2 + n1, i + 1 + n1 + n2),
         end  |-> i + 2 + n1 + n2]

\* re.findall(r"<(\w+):(\w+)>", path): the name groups, left to right.
RECURSIVE FindParamNames(_, _)
FindParamNames(s, i) ==
    IF i > Len(s) THEN <<>>
    ELSE LET m == ParamMatchAt(s, i)
         IN  IF m.ok THEN <<m.name>> \o FindParamNames(s, m.end + 1)
             ELSE FindParamNames(s, i + 1)

\* hue_django Router._parse_path_params
_parse_path_params(path) ==
    [path |-> path, param_names |-> FindParamNames(path, 1)]

\* The route that _request(method, path, require_ajax)(view_func) appends.
NewRoute(method, path, require_ajax, view_func) ==
    LET normalized_path == _normalize_path(path)
        parsed_path == _parse_path_params(normalized_path)
    IN  [name        |-> Lower(view_func.name),
         method      |-> Upper(method),
         path        |-> parsed_path.path,
         view_func   |-> _wrap_view(view_func, require_ajax),
         path_params |-> parsed_path.param_names]

\* Faulty _page: the route is registered as AJAX-required, like a fragment.
_page_ajax_required(path, view_func) == NewRoute("GET", path, TRUE, view_func)

\* The route that _page(path)(view_func) appends:
\* _page = partialmethod(_request, "GET", require_ajax=False)
_page(path, view_func) == NewRoute("GET", path, FALSE, view_func)

\* Faulty decorator: the wrapped view is returned in place of the view
\* function.
DecoratorReturn_wrapped(view_func, wrapped_view) == wrapped_view

\* What decorator(view_func) returns: the original view function.
DecoratorReturn(view_func, wrapped_view) == view_func

\* The route decorators used in the view class body: fragment_* partialmethods
\* and a direct use of _request with a lower-case method.
Decorators ==
    {[name |-> "fragment_get", method |-> "GET", require_ajax |-> TRUE],
     [name |-> "fragment_post", method |-> "POST", require_ajax |-> TRUE],
     [name |-> "_request", method |-> "post", require_ajax |-> TRUE]}

\* Paths given to the decorators.
RegisteredPaths ==
    {<<"/">>, <<"/", "a", "/", "<", "i", "n", "t", ":", "n", ">", "/">>}

\* View functions defined on the view class.
ViewFuncs == {ViewFunc("Items", NoBody), ViewFunc("login", LoginCredentials)}

\* The view's index method.
IndexFunc == ViewFunc("index", NoBody)

\* Faulty registration: a route with the same path and method as an earlier
\* one takes its place in the table.
Register_dedup(d, path, view_func) ==
    LET route == NewRoute(d.method, path, d.require_ajax, view_func)
        same == {i \in 1..Len(routes) :
                    routes[i].path = route.path /\ routes[i].method = route.method}
    IN  /\ view.router
        /\ Len(routes) < MaxRoutes
        /\ urls_accesses = 0
        /\ routes' = IF same = {} THEN Append(routes, route)
                      ELSE [routes EXCEPT ![CHOOSE i \in same : TRUE] = route]
        /\ decorated' = Append(decorated, view_func)
        /\ UNCHANGED <<url_patterns, urls_accesses, urls_result, view, dj, inv,
                       got, calc, conc>>

\* @router.<decorator>(path) applied to view_func, in the body of the view
\* class (before its urls are first read).
Register(d, path, view_func) ==
    /\ view.router
    /\ Len(routes) < MaxRoutes
    /\ urls_accesses = 0
    /\ routes' = Append(routes, NewRoute(d.method, path, d.require_ajax, view_func))
    /\ decorated' = Append(decorated,
                           DecoratorReturn(view_func,
                                           _wrap_view(view_func, d.require_ajax)))
    /\ UNCHANGED <<url_patterns, urls_accesses, urls_result, view, dj, inv,
                   got, calc, conc>>

(***************************************************************************)
(* URL binding, _BaseView._create_url_patterns_from_router.                *)
(***************************************************************************)
\* Faulty grouping: one path per route, repeated paths included.
PathsInOrder_no_grouping(rs, seen) == [i \in 1..Len(rs) |-> rs[i].path]

\* The distinct paths of the routes, in order of first registration.
RECURSIVE PathsInOrder(_, _)
PathsInOrder(rs, seen) ==
    IF rs = <<>> THEN <<>>
    ELSE IF Head(rs).path \in seen THEN PathsInOrder(Tail(rs), seen)
    ELSE <<Head(rs).path>> \o PathsInOrder(Tail(rs), seen \cup {Head(rs).path})

\* routes_by_path[path_str]
RoutesOfPath(rs, path_str) == SelectSeq(rs, LAMBDA r : r.path = path_str)

_create_url_patterns_from_router(rs) ==
    LET paths == PathsInOrder(rs, {})
    IN  [i \in 1..Len(paths) |->
            [path   |-> paths[i],
             routes |-> RoutesOfPath(rs, paths[i]),
             name   |-> RoutesOfPath(rs, paths[i])[1].name]]

\* View classes: a HueView or a HueFragmentsView, with or without a router
\* attribute, whose index attribute is a method, a non-callable or missing.
ViewClass(base, router, index) == [base |-> base, router |-> router, index |-> index]

ViewClasses ==
    {ViewClass("HueView", TRUE, "method"),
     ViewClass("HueView", FALSE, "method"),
     ViewClass("HueView", TRUE, "missing"),
     ViewClass("HueView", TRUE, "str"),
     ViewClass("HueFragmentsView", TRUE, "missing"),
     ViewClass("HueFragmentsView", FALSE, "missing")}

\* Faulty HueView._get_urls: an index attribute that is not callable is
\* accepted.
HueView_get_urls_lenient ==
    /\ view.base = "HueView"
    /\ IF view.index = "missing"
       THEN /\ urls_result' = Raise("ValueError")
            /\ UNCHANGED <<routes, url_patterns, conc>>
       ELSE LET router == IF view.router THEN routes ELSE <<>>
                with_index == Append(router, _page(<<"/">>, IndexFunc))
            IN  /\ routes' = IF view.router THEN with_index ELSE routes
                /\ url_patterns' = _create_url_patterns_from_router(with_index)
                /\ urls_result' = [k |-> "ok"]

\* HueView._get_urls: the index route is registered on the router (a new
\* one when the class has none), then the URL entries are built.
HueView_get_urls ==
    /\ view.base = "HueView"
    /\ IF view.index = "missing" \/ view.index # "method"
       THEN /\ urls_result' = Raise("ValueError")
            /\ UNCHANGED <<routes, url_patterns, conc>>
       ELSE LET router == IF view.router THEN routes ELSE <<>>
                with_index == Append(router, _page(<<"/">>, IndexFunc))
            IN  /\ routes' = IF view.router THEN with_index ELSE routes
                /\ url_patterns' = _create_url_patterns_from_router(with_index)
                /\ urls_result' = [k |-> "ok"]

\* HueFragmentsView._get_urls
HueFragmentsView_get_urls ==
    /\ view.base = "HueFragmentsView"
    /\ IF ~view.router
       THEN /\ urls_result' = Raise("ValueError")
            /\ UNCHANGED <<routes, url_patterns, conc>>
       ELSE /\ url_patterns' = _create_url_patterns_from_router(routes)
            /\ urls_result' = [k |-> "ok"]
            /\ UNCHANGED routes

\* Reading <view class>.urls (_BaseViewMeta.__getattr__).
AccessUrls ==
    /\ urls_accesses < MaxUrlsAccesses
    /\ dj.pc = "idle"
    /\ HueView_get_urls \/ HueFragmentsView_get_urls
    /\ urls_accesses' = urls_accesses + 1
    /\ UNCHANGED <<view, dj, inv, decorated, got, calc, conc>>

(***************************************************************************)
(* The dispatcher of one URL entry (view_func) and _BaseView._handle_route *)
(***************************************************************************)
HttpResponse(content, status) ==
    [k |-> "HttpResponse", content |-> content, status_code |-> status]

\* Django request methods (always upper-case).
RequestMethods == {"GET", "POST", "DELETE"}

FORM_URLENCODED ==
    <<"a","p","p","l","i","c","a","t","i","o","n","/","x","-","w","w","w","-","f","o","r","m",
      "-","u","r","l","e","n","c","o","d","e","d">>

FORM_LOGIN == {<<"email", StrV("a@b.com")>>, <<"password", StrV("p")>>}
FORM_NO_PASSWORD == {<<"email", StrV("a@b.com")>>}

\* Content type, raw body and parsed form (request.POST) of a Django request.
DjangoPayloads ==
    {[content_type |-> APPLICATION_JSON, body |-> BODY_LOGIN, POST |-> EmptyDict],
     [content_type |-> APPLICATION_JSON, body |-> BODY_NOT_JSON, POST |-> EmptyDict],
     [content_type |-> FORM_URLENCODED, body |-> BODY_EMPTY, POST |-> FORM_LOGIN],
     [content_type |-> FORM_URLENCODED, body |-> BODY_EMPTY, POST |-> FORM_NO_PASSWORD]}

HttpRequest(method, xrw, alpine, payload, csrf) ==
    [k |-> "HttpRequest", method |-> method,
     META |-> Header("HTTP_X_REQUESTED_WITH", xrw)
              \cup Header("HTTP_X_ALPINE_REQUEST", alpine),
     content_type |-> payload.content_type,
     body |-> payload.body,
     POST |-> payload.POST,
     csrf |-> csrf]

\* The AJAX marker headers of a request: none, X-Requested-With, or
\* X-Alpine-Request.
MarkerHeaders ==
    {<<None, None>>, <<"XMLHttpRequest", None>>, <<None, "true">>}

\* Requests that reach the dispatcher.
DjangoRequests ==
    {HttpRequest(m, h[1], h[2], p, "csrf-1") :
        m \in RequestMethods, h \in MarkerHeaders, p \in DjangoPayloads}

\* Faulty route matching: the last route with the request's method wins.
MatchingRoute_last(rs, request) ==
    LET hits == {i \in 1..Len(rs) : rs[i].method = Upper(request.method)}
    IN  IF hits = {} THEN 0 ELSE CHOOSE i \in hits : \A j \in hits : i >= j

\* Faulty route matching: the first route of the entry is taken whatever
\* its method.
MatchingRoute_first(rs, request) == IF rs = <<>> THEN 0 ELSE 1

\* Faulty route matching: the AJAX requirement is examined before the
\* method, so a request that is not an AJAX request goes to the first route
\* that requires AJAX, whatever its method.
MatchingRoute_ajax_first(rs, request) ==
    LET hits == {i \in 1..Len(rs) : rs[i].method = Upper(request.method)}
        strict == {i \in 1..Len(rs) : rs[i].view_func.require_ajax}
    IN  IF ~IsAjax(request) /\ strict # {}
        THEN CHOOSE i \in strict : \A j \in strict : i <= j
        ELSE IF hits = {} THEN 0 ELSE CHOOSE i \in hits : \A j \in hits : i <= j

\* Index of the first route whose method is the request's, 0 when none is.
MatchingRoute(rs, request) ==
    LET hits == {i \in 1..Len(rs) : rs[i].method = Upper(request.method)}
    IN  IF hits = {} THEN 0 ELSE CHOOSE i \in hits : \A j \in hits : i <= j

Elems(seq) == {seq[i] : i \in 1..Len(seq)}

\* The keyword arguments the URL resolver captures for a path.
CapturedKwargs(path_str) ==
    {<<n, StrV("42")>> : n \in Elems(_parse_path_params(path_str).param_names)}

\* Keyword arguments captured by the URL patterns that include the view's
\* urls (path("<org>/", include(MyView.urls))): none, or one.
OuterKwargs == {EmptyDict, {<<<<"o", "r", "g">>, StrV("7")>>}}

\* Faulty filter: every keyword argument is passed on.
HandlerKwargs_all(kwargs, route) == kwargs

\* handler_kwargs = {k: v for k, v in kwargs.items() if k in route.path_params}
HandlerKwargs(kwargs, route) ==
    {p \in kwargs : p[1] \in Elems(route.path_params)}

\* Faulty _handle_route: AJAXRequiredError is answered with 403.
_handle_route_403(wrapped_result) ==
    CASE wrapped_result.k = "tuple" ->
            HttpResponse(wrapped_result.html, wrapped_result.status_code)
      [] wrapped_result.k = "RawResponse" -> Raise("TypeError")
      [] wrapped_result.k = "raise" ->
            IF wrapped_result.exc = "AJAXRequiredError"
            THEN HttpResponse("Forbidden", 403)
            ELSE wrapped_result

\* _handle_route after the wrapped view has finished: the (html, status)
\* pair is unpacked into a response, AJAXRequiredError becomes a 400, any
\* other exception propagates.
_handle_route(wrapped_result) ==
    CASE wrapped_result.k = "tuple" ->
            HttpResponse(wrapped_result.html, wrapped_result.status_code)
      [] wrapped_result.k = "RawResponse" -> Raise("TypeError")
      [] wrapped_result.k = "raise" ->
            IF wrapped_result.exc = "AJAXRequiredError"
            THEN HttpResponse("Bad Request", 400)
            ELSE wrapped_result

\* Faulty try/except: every exception is answered with 400.
view_func_outcome_catch_all(handled) ==
    IF handled.k = "raise" THEN HttpResponse("Bad Request", 400) ELSE handled

\* The try/except of view_func around _handle_route.
view_func_outcome(handled) ==
    IF handled.k = "raise" /\ handled.exc = "AJAXRequiredError"
    THEN HttpResponse("Bad Request", 400)
    ELSE handled

\* The dispatch of a request once its wrapped view has finished.
DjAfter(d, call) ==
    IF call.caller = "django" /\ call.pc = "done"
    THEN [d EXCEPT !.pc = "done",
                   !.outcome = view_func_outcome(_handle_route(call.result))]
    ELSE d

\* Faulty dispatcher: the route list loses its first route when a request
\* is dispatched.
DjangoRequest_consumes(e, request) ==
    /\ dj.pc = "idle" /\ inv.pc = "idle"
    /\ e \in 1..Len(url_patterns)
    /\ \E outer \in OuterKwargs :
       LET entry == url_patterns[e]
           kwargs == CapturedKwargs(entry.path) \cup outer
           m == MatchingRoute(entry.routes, request)
           started == [IdleDj EXCEPT !.pc = "dispatched", !.request = request,
                                     !.entry = e, !.kwargs = kwargs,
                                     !.matching_route = m]
       IN  IF m = 0
           THEN /\ dj' = [started EXCEPT
                            !.pc = "done",
                            !.outcome = HttpResponse("Method not allowed", 405)]
                /\ inv' = inv
           ELSE LET route == entry.routes[m]
                    handler_kwargs == HandlerKwargs(kwargs, route)
                    call == WrappedViewEnter("django", route.view_func, request,
                                             handler_kwargs)
                IN  /\ inv' = call
                    /\ dj' = DjAfter([started EXCEPT
                                        !.handler_kwargs = handler_kwargs], call)
    /\ routes' = IF routes = <<>> THEN routes ELSE Tail(routes)
    /\ UNCHANGED <<url_patterns, urls_accesses, urls_result, view,
                   decorated, got, calc, conc>>

\* view_func of URL entry e receives a request.
DjangoRequest(e, request) ==
    /\ dj.pc = "idle" /\ inv.pc = "idle"
    /\ e \in 1..Len(url_patterns)
    /\ \E outer \in OuterKwargs :
       LET entry == url_patterns[e]
           kwargs == CapturedKwargs(entry.path) \cup outer
           m == MatchingRoute(entry.routes, request)
           started == [IdleDj EXCEPT !.pc = "dispatched", !.request = request,
                                     !.entry = e, !.kwargs = kwargs,
                                     !.matching_route = m]
       IN  IF m = 0
           THEN /\ dj' = [started EXCEPT
                            !.pc = "done",
                            !.outcome = HttpResponse("Method not allowed", 405)]
                /\ inv' = inv
           ELSE LET route == entry.routes[m]
                    handler_kwargs == HandlerKwargs(kwargs, route)
                    call == WrappedViewEnter("django", route.view_func, request,
                                             handler_kwargs)
                IN  /\ inv' = call
                    /\ dj' = DjAfter([started EXCEPT
                                        !.handler_kwargs = handler_kwargs], call)
    /\ UNCHANGED <<routes, url_patterns, urls_accesses, urls_result, view,
                   decorated, got, calc, conc>>

(***************************************************************************)
(* The view function runs, the renderer runs, the caller gets the result.  *)
(***************************************************************************)
REDIRECT == [k |-> "HttpResponseRedirect", status_code |-> 302, url |-> "/dashboard/"]

\* What a view function may return: a plain component, a HueResponse (with
\* or without target and status code), or a raw framework response.
HandlerResults ==
    {Element("div", Text("Test"), None),
     HueResponse([component |-> Element("span", Text("Error message"), None),
                  target |-> "error-container", status_code |-> 422]),
     HueResponse([component |-> Element("span", Text("Success"), None)]),
     HueResponse([component |-> Text("Denied"), target |-> "", status_code |-> 401]),
     REDIRECT}

\* What the view functions of the view class return.
ViewHandlerResults ==
    {Element("div", Text("Test"), None),
     HueResponse([component |-> Element("span", Text("Error message"), None),
                  target |-> "error-container", status_code |-> 422]),
     REDIRECT}

\* The awaited view function returns (Router._call_view_func).
HandlerReturns(result) ==
    /\ inv.pc = "handler"
    /\ inv' = WrappedViewResult(inv, result)
    /\ dj' = DjAfter(dj, inv')
    /\ UNCHANGED <<routes, url_patterns, urls_accesses, urls_result, view,
                   decorated, got, calc, conc>>

\* The awaited view function raises.
HandlerRaises ==
    /\ inv.pc = "handler"
    /\ inv' = [inv EXCEPT !.pc = "done", !.result = Raise("HandlerError")]
    /\ dj' = DjAfter(dj, inv')
    /\ UNCHANGED <<routes, url_patterns, urls_accesses, urls_result, view,
                   decorated, got, calc, conc>>

\* The awaited renderer returns the markup (Router.render).
RenderDone ==
    /\ inv.pc = "render"
    /\ inv' = WrappedViewRendered(inv)
    /\ dj' = DjAfter(dj, inv')
    /\ UNCHANGED <<routes, url_patterns, urls_accesses, urls_result, view,
                   decorated, got, calc, conc>>

\* The finished call is handed back to its caller.
Return ==
    /\ inv.pc = "done" \/ dj.pc = "done"
    /\ inv' = IdleInv
    /\ dj' = IdleDj
    /\ UNCHANGED <<routes, url_patterns, urls_accesses, urls_result, view,
                   decorated, got, calc, conc>>

(***************************************************************************)
(* Direct calls of a wrapped view, as the router's own tests make them.    *)
(***************************************************************************)
JSON_CHARSET == APPLICATION_JSON \o <<";", " ", "c", "h", "a", "r", "s", "e", "t">>

ContentTypes == {<<>>, APPLICATION_JSON, JSON_CHARSET, FORM_URLENCODED}

\* A MockRequest, whose headers are a dict or an object without get.
MockRequest(headers, body, content_type, form_data) ==
    [k |-> "MockRequest", headers |-> headers, body |-> body,
     content_type |-> content_type, form_data |-> form_data]

\* A request object without a headers attribute.
BareRequest(body, content_type, form_data) ==
    [k |-> "BareRequest", body |-> body,
     content_type |-> content_type, form_data |-> form_data]

HeaderContainers ==
    {DictHeaders(x, a) : x \in XRequestedWithValues, a \in XAlpineValues}
    \cup {ListHeaders("XMLHttpRequest", None), ListHeaders(None, "true")}

FormDatas == {FORM_LOGIN, FORM_NO_PASSWORD}

\* Requests given to a wrapped view of the test router.
MockRequests ==
    {MockRequest(h, b, c, f) :
        h \in HeaderContainers, b \in RawBodies, c \in ContentTypes, f \in FormDatas}
    \cup {BareRequest(b, c, f) :
            b \in RawBodies, c \in ContentTypes, f \in FormDatas}

\* Requests given to a wrapped view of the Django router.
DirectDjangoRequests ==
    {HttpRequest("POST", x, a, p, "csrf-1") :
        x \in XRequestedWithValues, a \in XAlpineValues, p \in DjangoPayloads}

\* View functions wrapped directly.
WrappedViewFuncs ==
    {ViewFunc("view_func", NoBody), ViewFunc("login", LoginCredentials),
     ViewFunc("rename", OptionalBody)}

\* wrapped = router._wrap_view(view_func, require_ajax); wrapped(view, request)
CallWrapped(view_func, require_ajax, request) ==
    /\ inv.pc = "idle" /\ dj.pc = "idle"
    /\ inv' = WrappedViewEnter("direct", _wrap_view(view_func, require_ajax),
                               request, EmptyDict)
    /\ UNCHANGED <<routes, url_patterns, urls_accesses, urls_result, view, dj,
                   decorated, got, calc, conc>>

\* router._is_ajax_request(request), called on its own.
Classify(request) ==
    /\ inv.pc = "idle" /\ dj.pc = "idle"
    /\ inv' = [IdleInv EXCEPT !.pc = "done", !.caller = "classify",
                              !.request = request,
                              !.result = [k |-> "bool", v |-> IsAjax(request)]]
    /\ UNCHANGED <<routes, url_patterns, urls_accesses, urls_result, view, dj,
                   decorated, got, calc, conc>>

(***************************************************************************)
(* The router used on its own: reading its routes, and calling the names   *)
(* its decorators were applied to.                                         *)
(***************************************************************************)
\* Faulty routes property: the router's own list is handed out.
routes_property_no_copy(table) == [k |-> "list", shared |-> TRUE, items |-> table, edits |-> 0]

\* Router.routes: self._routes.copy(), a list of its own with the same
\* Route objects (shared: the list is the router's own list object).
routes_property(table) == [k |-> "list", shared |-> FALSE, items |-> table, edits |-> 0]

\* routes = router.routes
ReadRoutes ==
    /\ inv.pc = "idle"
    /\ got' = routes_property(routes)
    /\ UNCHANGED <<routes, url_patterns, urls_accesses, urls_result, view, dj,
                   inv, decorated, calc, conc>>

\* A route object of the caller's own.
ForeignRoute == NewRoute("DELETE", <<"/", "b">>, TRUE, ViewFunc("other", NoBody))

\* list.append / list.pop / list.reverse
ListOps == {"append", "pop", "reverse"}

RECURSIVE Reverse(_)
Reverse(seq) == IF seq = <<>> THEN <<>> ELSE Append(Reverse(Tail(seq)), Head(seq))

ListOp(op, items) ==
    CASE op = "append" -> Append(items, ForeignRoute)
      [] op = "pop" -> SubSeq(items, 1, Len(items) - 1)
      [] op = "reverse" -> Reverse(items)

\* The caller changes the list it got.  The router's table changes with it
\* only when the list is the router's own list object.
MutateReturned(op) ==
    /\ inv.pc = "idle"
    /\ got.k = "list"
    /\ got.edits < MaxEdits
    /\ op = "pop" => got.items # <<>>
    /\ got' = [got EXCEPT !.items = ListOp(op, got.items), !.edits = @ + 1]
    /\ routes' = IF got.shared THEN ListOp(op, got.items) ELSE routes
    /\ UNCHANGED <<url_patterns, urls_accesses, urls_result, view, dj, inv,
                   decorated, calc, conc>>

\* A request without AJAX markers whose body is not valid JSON.
PlainRequest == MockRequest(DictHeaders(None, None), BODY_NOT_JSON, APPLICATION_JSON, EmptyDict)

\* What a view function called directly produces.
DirectOutcomes == ViewHandlerResults \cup {Raise("HandlerError")}

\* The i-th decorated name of the class body is called directly, as
\* name(view_instance, request, context).  A view function runs its body; a
\* wrapped view would run wrapped_view.
CallDecorated(i, request, outcome) ==
    /\ inv.pc = "idle" /\ dj.pc = "idle"
    /\ i \in 1..Len(decorated)
    /\ inv' = IF "require_ajax" \in DOMAIN decorated[i]
              THEN WrappedViewEnter("name", decorated[i], request, EmptyDict)
              ELSE [IdleInv EXCEPT !.pc = "done", !.caller = "name",
                                   !.view_func = decorated[i].name,
                                   !.body_type = decorated[i].body_type,
                                   !.request = request,
                                   !.handler_calls = 1,
                                   !.result = outcome]
    /\ UNCHANGED <<routes, url_patterns, urls_accesses, urls_result, view, dj,
                   decorated, got, calc, conc>>

(***************************************************************************)
(* Path operations applied on their own.                                   *)
(***************************************************************************)
\* Characters of the paths.
PathChars == {"/", "a", ":"}

\* The paths of at most MaxPathLen characters.
PathInputs == UNION {[1..n -> PathChars] : n \in 0..MaxPathLen}

\* A path about to be normalised.
NormalizeCall(path) ==
    [k |-> "normalize", path |-> path, applied |-> 0, once |-> <<>>, twice |-> <<>>]

\* router._normalize_path(path), and _normalize_path of its result.
Normalize ==
    /\ calc.k = "normalize"
    /\ calc.applied < 2
    /\ calc' = IF calc.applied = 0
               THEN [calc EXCEPT !.applied = 1, !.once = _normalize_path(calc.path)]
               ELSE [calc EXCEPT !.applied = 2, !.twice = _normalize_path(calc.once)]
    /\ UNCHANGED <<routes, url_patterns, urls_accesses, urls_result, view, dj,
                   inv, decorated, got, conc>>

\* A match of \{(\w+)\} that starts at i: its name group and its end.
BraceMatchAt(s, i) ==
    LET n == WordRun(s, i + 1)
    IN  [ok   |-> /\ CharAt(s, i) = "{"
                  /\ n >= 1
                  /\ CharAt(s, i + 1 + n) = "}",
         name |-> SubSeq(s, i + 1, i + n),
         end  |-> i + 1 + n]

\* re.findall(r"\{(\w+)\}", path): the name groups, left to right.
RECURSIVE FindBraceNames(_, _)
FindBraceNames(s, i) ==
    IF i > Len(s) THEN <<>>
    ELSE LET m == BraceMatchAt(s, i)
         IN  IF m.ok THEN <<m.name>> \o FindBraceNames(s, m.end + 1)
             ELSE FindBraceNames(s, i + 1)

\* re.sub(r"\{(\w+)\}", r"<\1>", path)
RECURSIVE SubBraces(_, _)
SubBraces(s, i) ==
    IF i > Len(s) THEN <<>>
    ELSE LET m == BraceMatchAt(s, i)
         IN  IF m.ok THEN <<"<">> \o m.name \o <<">">> \o SubBraces(s, m.end + 1)
             ELSE <<s[i]>> \o SubBraces(s, i + 1)

\* MockRouter._parse_path_params (the router of the hue-python tests)
mock_parse_path_params(path) ==
    [path |-> SubBraces(path, 1), param_names |-> FindBraceNames(path, 1)]

\* Segments of path templates: literal text, Django parameters with and
\* without a converter, brace parameters, and a stray bracket.
Segment(kind, name, text) == [kind |-> kind, name |-> name, text |-> text]

Segments ==
    {Segment("literal", <<>>, <<"a", "/">>),
     Segment("stray", <<>>, <<"<">>),
     Segment("bracket", <<"n">>, <<"<", "i", "n", "t", ":", "n", ">">>),
     Segment("bracket", <<"b">>, <<"<", "i", "n", "t", ":", "b", ">">>),
     Segment("bracket", <<"n">>, <<"<", "n", ">">>),
     Segment("brace", <<"n">>, <<"{", "n", "}">>),
     Segment("brace", <<"b">>, <<"{", "b", "}">>)}

\* The path templates of at most MaxSegments segments.
Templates == UNION {[1..n -> Segments] : n \in 0..MaxSegments}

\* The text of a template.
RECURSIVE TemplateText(_)
TemplateText(t) ==
    IF t = <<>> THEN <<>> ELSE Head(t).text \o TemplateText(Tail(t))

\* The path parsers: the Django router's and the test router's.
Parsers == {"django", "mock"}

\* A path template about to be parsed.
ParseCall(parser, template) ==
    [k |-> "parse", parser |-> parser, template |-> template,
     path |-> TemplateText(template), applied |-> 0, result |-> NoValue]

\* router._parse_path_params(path)
ParsePath ==
    /\ calc.k = "parse"
    /\ calc.applied = 0
    /\ calc' = [calc EXCEPT
                  !.applied = 1,
                  !.result = IF calc.parser = "django"
                             THEN _parse_path_params(calc.path)
                             ELSE mock_parse_path_params(calc.path)]
    /\ UNCHANGED <<routes, url_patterns, urls_accesses, urls_result, view, dj,
                   inv, decorated, got, conc>>

(***************************************************************************)
(* hue.utils.classnames.  Class names are character sequences; a dict is   *)
(* the sequence of its items in insertion order.                           *)
(***************************************************************************)
FOO == <<"f", "o", "o">>
BAR == <<"b", "a", "r">>

ArgNone == [k |-> "None"]
ArgStr(value) == [k |-> "str", value |-> value]
ArgList(items) == [k |-> "list", items |-> items]
ArgDict(items) == [k |-> "dict", items |-> items]

\* Arguments of the declared types: str | list[str] | dict[str, bool] | None.
ArgValues ==
    {ArgNone, ArgStr(<<>>), ArgStr(FOO), ArgStr(BAR),
     ArgList(<<>>), ArgList(<<FOO, <<>>, BAR>>), ArgList(<<BAR, FOO>>),
     ArgDict(<<>>), ArgDict(<<<<FOO, TRUE>>, <<BAR, FALSE>>>>),
     ArgDict(<<<<BAR, FALSE>>, <<<<>>, TRUE>>, <<FOO, TRUE>>>>)}

\* Argument lists of up to MaxArgs arguments.
ArgLists == UNION {[1..n -> ArgValues] : n \in 0..MaxArgs}

\* sep.join(classes)
RECURSIVE join(_, _)
join(sep, classes) ==
    IF classes = <<>> THEN <<>>
    ELSE IF Len(classes) = 1 THEN classes[1]
    ELSE classes[1] \o sep \o join(sep, Tail(classes))

\* [cls for cls in arg if cls]
RECURSIVE NonEmpty(_)
NonEmpty(items) ==
    IF items = <<>> THEN <<>>
    ELSE IF Head(items) # <<>> THEN <<Head(items)>> \o NonEmpty(Tail(items))
    ELSE NonEmpty(Tail(items))

\* [cls for cls, condition in arg.items() if condition and cls]
RECURSIVE TrueKeys(_)
TrueKeys(items) ==
    IF items = <<>> THEN <<>>
    ELSE IF Head(items)[2] /\ Head(items)[1] # <<>>
    THEN <<Head(items)[1]>> \o TrueKeys(Tail(items))
    ELSE TrueKeys(Tail(items))

\* The loop of classnames over its arguments, collecting into classes.
RECURSIVE classnames_loop(_, _)
classnames_loop(args, classes) ==
    IF args = <<>> THEN classes
    ELSE LET arg == Head(args)
             extended ==
                 CASE arg.k = "None" -> classes
                   [] arg.k = "str" -> IF arg.value # <<>>
                                       THEN Append(classes, arg.value)
                                       ELSE classes
                   [] arg.k = "list" -> classes \o NonEmpty(arg.items)
                   [] arg.k = "dict" -> classes \o TrueKeys(arg.items)
         IN  classnames_loop(Tail(args), extended)

\* Faulty classnames: the classes are joined without a separator.
classnames_no_separator(args) == join(<<>>, classnames_loop(args, <<>>))

\* classnames(*args)
classnames(args) == join(<<" ">>, classnames_loop(args, <<>>))

ClassnamesCall(args) ==
    [k |-> "classnames", args |-> args, applied |-> 0, result |-> <<>>]

\* classnames(*args) is called.
Classnames ==
    /\ calc.k = "classnames"
    /\ calc.applied = 0
    /\ calc' = [calc EXCEPT !.applied = 1, !.result = classnames(calc.args)]
    /\ UNCHANGED <<routes, url_patterns, urls_accesses, urls_result, view, dj,
                   inv, decorated, got, conc>>

(***************************************************************************)
(* Requests handled concurrently by the dispatcher of one URL entry.  Each *)
(* call of view_func is a task with its own local variables; the view      *)
(* instances it constructs live in a heap shared by all tasks.             *)
(***************************************************************************)
\* The route of the URL entry: an AJAX-required POST with a typed body.
ConcRoute == NewRoute("POST", <<"/">>, TRUE, ViewFunc("login", LoginCredentials))

FORM_OTHER_LOGIN == {<<"email", StrV("c@d.com")>>, <<"password", StrV("q")>>}

\* Two requests that differ in their AJAX marker, body and CSRF token.
ConcRequests ==
    {HttpRequest("POST", "XMLHttpRequest", None,
                 [content_type |-> APPLICATION_JSON, body |-> BODY_LOGIN,
                  POST |-> EmptyDict], "csrf-1"),
     HttpRequest("POST", None, "true",
                 [content_type |-> FORM_URLENCODED, body |-> BODY_EMPTY,
                  POST |-> FORM_OTHER_LOGIN], "csrf-2")}

\* A task that has not received its request.
IdleTask ==
    [pc |-> "idle", request |-> NoValue, kwargs |-> EmptyDict, view_instance |-> 0,
     call |-> NoValue, seen |-> NoValue, outcome |-> NoValue]

\* Faulty construction: one view instance is made once and used for every
\* request.
NewInstance_shared(instances) ==
    IF instances = <<>>
    THEN [instances |-> <<[request |-> NoValue, kwargs |-> EmptyDict]>>, id |-> 1]
    ELSE [instances |-> instances, id |-> 1]

\* view_instance = cls(): a new object on the heap.
NewInstance(instances) ==
    [instances |-> Append(instances, [request |-> NoValue, kwargs |-> EmptyDict]),
     id |-> Len(instances) + 1]

\* view_func(request, **kwargs) is entered for a request.
Arrive(t, request) ==
    /\ conc.k = "tasks"
    /\ conc.tasks[t].pc = "idle"
    /\ conc' = [conc EXCEPT !.tasks[t].pc = "entered",
                            !.tasks[t].request = request,
                            !.tasks[t].kwargs = CapturedKwargs(url_patterns[1].path)]
    /\ UNCHANGED <<routes, url_patterns, urls_accesses, urls_result, view, dj, inv,
                   decorated, got, calc>>

\* view_instance = cls()
Construct(t) ==
    /\ conc.k = "tasks"
    /\ conc.tasks[t].pc = "entered"
    /\ LET new == NewInstance(conc.instances)
       IN  conc' = [conc EXCEPT !.instances = new.instances,
                                !.tasks[t].view_instance = new.id,
                                !.tasks[t].pc = "constructed"]
    /\ UNCHANGED <<routes, url_patterns, urls_accesses, urls_result, view, dj, inv,
                   decorated, got, calc>>

\* view_instance.setup(request, **kwargs)
Setup(t) ==
    /\ conc.k = "tasks"
    /\ conc.tasks[t].pc = "constructed"
    /\ LET task == conc.tasks[t]
       IN  conc' = [conc EXCEPT
                      !.instances[task.view_instance] =
                          [request |-> task.request, kwargs |-> task.kwargs],
                      !.tasks[t].pc = "ready"]
    /\ UNCHANGED <<routes, url_patterns, urls_accesses, urls_result, view, dj, inv,
                   decorated, got, calc>>

\* The route is matched and _handle_route calls the wrapped view, which
\* runs up to the call of the view function.
Dispatch(t) ==
    /\ conc.k = "tasks"
    /\ conc.tasks[t].pc = "ready"
    /\ LET task == conc.tasks[t]
           entry == url_patterns[1]
           m == MatchingRoute(entry.routes, task.request)
       IN  IF m = 0
           THEN conc' = [conc EXCEPT
                           !.tasks[t].pc = "done",
                           !.tasks[t].outcome = HttpResponse("Method not allowed", 405)]
           ELSE LET route == entry.routes[m]
                    handler_kwargs == HandlerKwargs(task.kwargs, route)
                    call == WrappedViewEnter("django", route.view_func,
                                             task.request, handler_kwargs)
                IN  conc' = [conc EXCEPT
                               !.tasks[t].call = call,
                               !.tasks[t].pc = IF call.pc = "done" THEN "done"
                                               ELSE "awaiting",
                               !.tasks[t].outcome =
                                   IF call.pc = "done"
                                   THEN view_func_outcome(_handle_route(call.result))
                                   ELSE NoValue]
    /\ UNCHANGED <<routes, url_patterns, urls_accesses, urls_result, view, dj, inv,
                   decorated, got, calc>>

\* The view function runs as view_func(view_instance, request, context,
\* **kwargs) and reads what it was given.
HandlerRuns(t) ==
    /\ conc.k = "tasks"
    /\ conc.tasks[t].pc = "awaiting"
    /\ LET task == conc.tasks[t]
       IN  conc' = [conc EXCEPT
                      !.tasks[t].pc = "handled",
                      !.tasks[t].seen =
                          [view_instance |-> task.view_instance,
                           self_request  |-> conc.instances[task.view_instance].request,
                           request       |-> task.call.request,
                           context       |-> task.call.context,
                           body          |-> DictGet(task.call.kwargs, BODY_KW)]]
    /\ UNCHANGED <<routes, url_patterns, urls_accesses, urls_result, view, dj, inv,
                   decorated, got, calc>>

(***************************************************************************)
(* Specifications.                                                         *)
(***************************************************************************)
Init ==
    /\ routes = <<>>
    /\ url_patterns = <<>>
    /\ urls_accesses = 0
    /\ urls_result = NoValue
    /\ view \in ViewClasses
    /\ dj = IdleDj
    /\ inv = IdleInv
    /\ decorated = <<>>
    /\ got = NoList
    /\ calc = NoCalc
    /\ conc = NoTasks

Next ==
    \/ \E d \in Decorators, p \in RegisteredPaths, f \in ViewFuncs : Register(d, p, f)
    \/ AccessUrls
    \/ \E e \in 1..Len(url_patterns), r \in DjangoRequests : DjangoRequest(e, r)
    \/ \E result \in ViewHandlerResults : HandlerReturns(result)
    \/ HandlerRaises
    \/ RenderDone
    \/ Return

\* A view class, its router and the Django dispatcher.
Spec == Init /\ [][Next]_vars

InitWrap ==
    /\ routes = <<>>
    /\ url_patterns = <<>>
    /\ urls_accesses = 0
    /\ urls_result = NoValue
    /\ view = ViewClass("HueFragmentsView", TRUE, "missing")
    /\ dj = IdleDj
    /\ inv = IdleInv
    /\ decorated = <<>>
    /\ got = NoList
    /\ calc = NoCalc
    /\ conc = NoTasks

NextWrap ==
    \/ \E f \in WrappedViewFuncs, a \in BOOLEAN,
          r \in MockRequests \cup DirectDjangoRequests : CallWrapped(f, a, r)
    \/ \E r \in MockRequests \cup DirectDjangoRequests : Classify(r)
    \/ \E result \in HandlerResults : HandlerReturns(result)
    \/ HandlerRaises
    \/ RenderDone
    \/ Return

\* A wrapped view called directly.
SpecWrap == InitWrap /\ [][NextWrap]_vars

NextRouter ==
    \/ \E d \in Decorators, p \in RegisteredPaths, f \in ViewFuncs : Register(d, p, f)
    \/ ReadRoutes
    \/ \E op \in ListOps : MutateReturned(op)
    \/ \E i \in 1..Len(decorated), o \in DirectOutcomes : CallDecorated(i, PlainRequest, o)
    \/ Return

\* A router, its table and the names its decorators were applied to.
SpecRouter == InitWrap /\ [][NextRouter]_vars

InitPath ==
    /\ routes = <<>>
    /\ url_patterns = <<>>
    /\ urls_accesses = 0
    /\ urls_result = NoValue
    /\ view = ViewClass("HueFragmentsView", TRUE, "missing")
    /\ dj = IdleDj
    /\ inv = IdleInv
    /\ decorated = <<>>
    /\ got = NoList
    /\ calc \in {NormalizeCall(p) : p \in PathInputs}
                \cup {ParseCall(r, t) : r \in Parsers, t \in Templates}
                \cup {ClassnamesCall(a) : a \in ArgLists}
    /\ conc = NoTasks

NextPath == Normalize \/ ParsePath \/ Classnames

InitConc ==
    /\ routes = <<ConcRoute>>
    /\ url_patterns = _create_url_patterns_from_router(<<ConcRoute>>)
    /\ urls_accesses = 1
    /\ urls_result = [k |-> "ok"]
    /\ view = ViewClass("HueFragmentsView", TRUE, "missing")
    /\ dj = IdleDj
    /\ inv = IdleInv
    /\ decorated = <<ViewFunc("login", LoginCredentials)>>
    /\ got = NoList
    /\ calc = NoCalc
    /\ conc = [k |-> "tasks", tasks |-> [t \in 1..MaxTasks |-> IdleTask],
               instances |-> <<>>]

NextConc ==
    \E t \in 1..MaxTasks :
        \/ \E r \in ConcRequests : Arrive(t, r)
        \/ Construct(t)
        \/ Setup(t)
        \/ Dispatch(t)
        \/ HandlerRuns(t)

\* Requests of one URL entry handled concurrently, in any interleaving.
SpecConc == InitConc /\ [][NextConc]_vars

\* The router's path operations applied to arbitrary paths.
SpecPath == InitPath /\ [][NextPath]_vars

(***************************************************************************)
(* Properties.                                                             *)
(***************************************************************************)
\* The request carries neither AJAX marker header.
NoAjaxHeaders(request) ==
    CASE request.k = "HttpRequest" ->
            DictKeys(request.META)
                \cap {"HTTP_X_REQUESTED_WITH", "HTTP_X_ALPINE_REQUEST"} = {}
      [] request.k = "MockRequest" ->
            DictKeys(request.headers.items)
                \cap {"X-Requested-With", "X-Alpine-Request"} = {}
      [] OTHER -> TRUE

\* The request carries X-Requested-With: XMLHttpRequest or
\* X-Alpine-Request: true in a header container that has a get operation.
MarkedAjax(request) ==
    CASE request.k = "HttpRequest" ->
            \/ <<"HTTP_X_REQUESTED_WITH", "XMLHttpRequest">> \in request.META
            \/ <<"HTTP_X_ALPINE_REQUEST", "true">> \in request.META
      [] request.k = "MockRequest" ->
            /\ request.headers.k = "dict"
            /\ \/ <<"X-Requested-With", "XMLHttpRequest">> \in request.headers.items
               \/ <<"X-Alpine-Request", "true">> \in request.headers.items
      [] OTHER -> FALSE

\* A wrapped view is running or has finished.
Invoked == inv.pc # "idle" /\ inv.caller \in {"direct", "django"}

\* The route the dispatcher selected for the request in hand.
SelectedRoute == url_patterns[dj.entry].routes[dj.matching_route]

\* A plain component (neither a HueResponse nor a raw response).
IsPlainComponent(c) == c.k \in {"element", "text"}

\* C1: a wrapped view with require_ajax = true, invoked with a request the
\* classifier does not recognise as AJAX, raises AJAXRequiredError and in
\* that invocation the view function is not called, the body is not
\* parsed, no context is built and nothing is rendered.
C1_AjaxRequiredBeforeHandler ==
    (Invoked /\ inv.require_ajax /\ ~IsAjax(inv.request)) =>
        /\ inv.pc = "done"
        /\ inv.result = Raise("AJAXRequiredError")
        /\ inv.handler_calls = 0
        /\ inv.parse_calls = 0
        /\ inv.context_builds = 0
        /\ inv.render_calls = 0

\* C1 witness: a non-AJAX request to an AJAX-required wrapped view whose
\* view function declares a typed body has been rejected.
C1_Witness ==
    /\ inv.caller = "direct" /\ inv.pc = "done"
    /\ inv.require_ajax /\ ~IsAjax(inv.request)
    /\ inv.body_type = LoginCredentials
    /\ inv.result = Raise("AJAXRequiredError")

\* C2: in the Django dispatcher, a request whose matching route requires
\* AJAX and which carries neither AJAX header ends in the response
\* 400 "Bad Request"; AJAXRequiredError does not escape.
C2_MissingAjaxHeaderIs400 ==
    (dj.pc # "idle" /\ dj.matching_route # 0
        /\ SelectedRoute.view_func.require_ajax
        /\ NoAjaxHeaders(dj.request)) =>
        /\ dj.pc = "done"
        /\ dj.outcome = HttpResponse("Bad Request", 400)

\* C2 witness: a POST without AJAX headers to an AJAX-required route with a
\* typed body was answered with 400.
C2_Witness ==
    /\ dj.pc = "done" /\ dj.matching_route # 0
    /\ SelectedRoute.view_func.require_ajax
    /\ SelectedRoute.view_func.body_type = LoginCredentials
    /\ NoAjaxHeaders(dj.request)
    /\ dj.outcome.k = "HttpResponse" /\ dj.outcome.status_code = 400

\* C3: when no route of the URL entry has the request's method, the
\* dispatcher answers 405 and no view function of the entry is invoked.
C3_NoMethodMatchIs405 ==
    (dj.pc # "idle"
        /\ \A i \in 1..Len(url_patterns[dj.entry].routes) :
              url_patterns[dj.entry].routes[i].method # dj.request.method) =>
        /\ dj.pc = "done"
        /\ dj.outcome = HttpResponse("Method not allowed", 405)
        /\ inv = IdleInv

\* C3 witness: a request whose method no route of a two-route entry has was
\* answered with 405.
C3_Witness ==
    /\ dj.pc = "done"
    /\ Len(url_patterns[dj.entry].routes) >= 2
    /\ \A i \in 1..Len(url_patterns[dj.entry].routes) :
          url_patterns[dj.entry].routes[i].method # dj.request.method
    /\ dj.outcome.k = "HttpResponse" /\ dj.outcome.status_code = 405

\* C4: when a view function returns a raw framework response, the request
\* dispatched through the Django view layer ends with that same response
\* object returned unchanged.
C4_RawResponseReachesClient ==
    (dj.pc = "done" /\ inv.caller = "django"
        /\ IsRawResponse(inv.view_func_result)) =>
        dj.outcome = inv.view_func_result

\* C5: in the view wrapper, a result that has a status_code attribute and
\* is not a HueResponse is returned as RawResponse holding that object, and
\* the renderer is not called.
C5_RawResponseWrapped ==
    (Invoked /\ "status_code" \in DOMAIN inv.view_func_result
        /\ inv.view_func_result.k # "HueResponse") =>
        /\ inv.pc = "done"
        /\ inv.result = [k |-> "RawResponse", response |-> inv.view_func_result]
        /\ inv.render_calls = 0

\* C5 witness: a directly called wrapped view returned a redirect.
C5_Witness ==
    /\ inv.caller = "direct" /\ inv.pc = "done"
    /\ inv.view_func_result = REDIRECT
    /\ inv.result.k = "RawResponse"

\* C6: the status code of a rendered result is the HueResponse's status
\* code when the view function returned a HueResponse (200 when it was
\* built without one) and 200 when it returned a plain component.
C6_StatusCode ==
    (Invoked /\ inv.result.k = "tuple") =>
        /\ inv.view_func_result.k = "HueResponse" =>
              inv.result.status_code = inv.view_func_result.status_code
        /\ inv.view_func_result
              = HueResponse([component |-> Element("span", Text("Success"), None)]) =>
              inv.result.status_code = 200
        /\ IsPlainComponent(inv.view_func_result) => inv.result.status_code = 200
        /\ inv.view_func_result.k = "HueResponse"
              \/ IsPlainComponent(inv.view_func_result)

\* C6 witness: a HueResponse with status 422 was rendered and returned
\* with status 422.
C6_Witness ==
    /\ Invoked /\ inv.result.k = "tuple"
    /\ inv.view_func_result.k = "HueResponse"
    /\ inv.result.status_code = 422

\* C7 as stated: a wrapped view with require_ajax = false, invoked with a
\* request without AJAX header, always has its view function invoked, and
\* returns (rendered string, 200) when that returns a plain component.
C7_PageRouteAlwaysInvokesHandler ==
    (Invoked /\ ~inv.require_ajax /\ NoAjaxHeaders(inv.request)) =>
        /\ inv.handler_calls = 1
        /\ (inv.pc = "done" /\ IsPlainComponent(inv.view_func_result)) =>
              inv.result = [k |-> "tuple",
                            html |-> RenderNode(inv.view_func_result),
                            status_code |-> 200]

\* C7 amended: a wrapped view with require_ajax = false, invoked with a
\* request without AJAX header, never raises AJAXRequiredError; unless body
\* parsing fails with BodyValidationError its view function is invoked, and
\* the result is (rendered string, 200) when that returns a plain component.
C7_PageRouteNeedsNoAjax ==
    (Invoked /\ ~inv.require_ajax /\ NoAjaxHeaders(inv.request)) =>
        /\ inv.result # Raise("AJAXRequiredError")
        /\ \/ inv.handler_calls = 1
           \/ /\ inv.pc = "done" /\ inv.result.k = "raise"
              /\ inv.result.exc = "BodyValidationError"
              /\ inv.body_type # NoBody
        /\ (inv.pc = "done" /\ IsPlainComponent(inv.view_func_result)) =>
              inv.result = [k |-> "tuple",
                            html |-> RenderNode(inv.view_func_result),
                            status_code |-> 200]

\* C7 witness: a request without AJAX headers to a wrapped view with
\* require_ajax = false got the rendered plain component with status 200.
C7_Witness ==
    /\ inv.caller = "direct" /\ inv.pc = "done" /\ ~inv.require_ajax
    /\ NoAjaxHeaders(inv.request)
    /\ inv.handler_calls = 1
    /\ inv.result = [k |-> "tuple", html |-> "<div>Test</div>", status_code |-> 200]

\* C8: the classifier answers true exactly when X-Requested-With is
\* "XMLHttpRequest" or X-Alpine-Request is "true"; it answers false for any
\* other header values, for a request without headers and for a header
\* container without get; and the call changes nothing else.
C8_ClassifierExact ==
    /\ [](inv.caller = "classify" => inv.result.v = MarkedAjax(inv.request))
    /\ [][(inv'.caller = "classify" /\ inv.caller # "classify") =>
             /\ UNCHANGED <<routes, url_patterns, urls_accesses, urls_result,
                            view, dj, decorated, got, calc, conc>>
             /\ inv' = [IdleInv EXCEPT !.pc = "done", !.caller = "classify",
                                       !.request = inv'.request,
                                       !.result = inv'.result]]_vars

\* C8 witness: the classifier answered false for a header container
\* without get that holds the X-Requested-With marker.
C8_Witness ==
    /\ inv.caller = "classify"
    /\ inv.request.k = "MockRequest"
    /\ inv.request.headers = ListHeaders("XMLHttpRequest", None)
    /\ inv.result.v = FALSE

\* C9: a HueResponse is rendered as its component wrapped in a div whose id
\* is the target when it has a (non-empty) target, and as the component
\* itself, with no wrapping element, when it has none.
C9_TargetWrapping ==
    (Invoked /\ inv.result.k = "tuple" /\ inv.view_func_result.k = "HueResponse") =>
        LET response == inv.view_func_result
        IN  /\ (response.target # None /\ response.target # "") =>
                  inv.result.html = "<div id=\"" \o response.target \o "\">"
                                        \o RenderNode(response.component)
                                        \o "</div>"
            /\ (response.target = None \/ response.target = "") =>
                  inv.result.html = RenderNode(response.component)

\* C9 witness: a HueResponse with target "error-container" was rendered.
C9_Witness ==
    /\ Invoked /\ inv.result.k = "tuple"
    /\ inv.view_func_result.k = "HueResponse"
    /\ inv.view_func_result.target = "error-container"
    /\ inv.result.html
          = "<div id=\"error-container\"><span>Error message</span></div>"

\* The request has a JSON content type and a non-empty body that is not
\* valid JSON.
InvalidJsonRequest(request) ==
    /\ Contains(APPLICATION_JSON, request.content_type)
    /\ request.body \in {BODY_NOT_JSON, BODY_TRUNCATED}

\* The wrapped view failed with BodyValidationError whose first entry has
\* type "json_invalid", without calling the view function.
FailedJsonInvalid ==
    /\ inv.pc = "done" /\ inv.result.k = "raise"
    /\ inv.result.exc = "BodyValidationError"
    /\ inv.result.errors[1].type = "json_invalid"
    /\ inv.handler_calls = 0

\* C10 as stated: for a view function with a typed body parameter, every
\* request with a JSON content type and a non-empty body that is not valid
\* JSON makes the wrapped view fail with BodyValidationError (first entry
\* "json_invalid") without invoking the view function.
C10_InvalidJsonAlwaysBodyError ==
    (Invoked /\ inv.body_type # NoBody /\ InvalidJsonRequest(inv.request)) =>
        FailedJsonInvalid

\* C10 amended: the same, for requests that pass the AJAX check of the
\* wrapped view (require_ajax is false or the request is classified AJAX).
C10_InvalidJsonAfterAjaxCheck ==
    (Invoked /\ inv.body_type # NoBody /\ InvalidJsonRequest(inv.request)
        /\ (~inv.require_ajax \/ IsAjax(inv.request))) =>
        FailedJsonInvalid

\* C10 witness: an AJAX request with content type
\* "application/json; charset" and body "not valid json" was refused.
C10_Witness ==
    /\ inv.caller = "direct" /\ inv.require_ajax /\ IsAjax(inv.request)
    /\ inv.request.content_type = JSON_CHARSET
    /\ inv.request.body = BODY_NOT_JSON
    /\ FailedJsonInvalid

\* The request body of the invocation decodes (as JSON or as form data).
Decodes(request) ==
    Contains(APPLICATION_JSON, request.content_type) =>
        request.body \notin {BODY_NOT_JSON, BODY_TRUNCATED}

\* The data the request body decodes to.
DecodedBody(request) ==
    IF Contains(APPLICATION_JSON, request.content_type)
    THEN (IF request.body = "" THEN JsonObject({}) ELSE json_loads(request.body).data)
    ELSE JsonObject(_get_form_data(request))

\* The fields of the declared type that the data lacks although required, or
\* holds with the wrong type.
FailingFields(body_type, items) ==
    {i \in 1..Len(body_type.fields) :
        LET f == body_type.fields[i]
        IN  \/ f.required /\ f.name \notin DictKeys(items)
            \/ /\ f.name \in DictKeys(items)
               /\ f.type = "str"
               /\ DictGet(items, f.name).t # "str"}

\* C11: for a view function with a typed body parameter, decoded body data
\* (JSON or form-encoded) in which a required field is missing or a field has
\* the wrong type makes the wrapped view fail with BodyValidationError that
\* carries one error per failing field (so at least one), and the view
\* function is not invoked.
C11_ValidationFailureRaises ==
    (Invoked /\ inv.parse_calls = 1 /\ Decodes(inv.request)
        /\ DecodedBody(inv.request).k = "dict"
        /\ FailingFields(inv.body_type, DecodedBody(inv.request).items) # {}) =>
        /\ inv.pc = "done"
        /\ inv.result.k = "raise"
        /\ inv.result.exc = "BodyValidationError"
        /\ Len(inv.result.errors) >= 1
        /\ Len(inv.result.errors)
              = Cardinality(FailingFields(inv.body_type,
                                          DecodedBody(inv.request).items))
        /\ \A i \in 1..Len(inv.result.errors) :
              inv.result.errors[i].type \in {"missing", "string_type"}
        /\ inv.handler_calls = 0

\* C11 witness: form-encoded data without the password field was refused
\* with one "missing" error for password.
C11_Witness ==
    /\ inv.caller = "direct" /\ inv.pc = "done"
    /\ inv.body_type = LoginCredentials
    /\ inv.request.content_type = FORM_URLENCODED
    /\ _get_form_data(inv.request) = FORM_NO_PASSWORD
    /\ inv.result = BodyValidationError(<<[type |-> "missing", loc |-> "password"]>>)
    /\ inv.handler_calls = 0

\* The invocation went on with the given data as its decoded body: the
\* view function got the validated value as `body`, or validation failed.
ProceededWith(data) ==
    LET validated == validate_python(inv.body_type, data)
    IN  IF validated.k = "ValidationError"
        THEN inv.result = BodyValidationError(validated.errors)
        ELSE /\ inv.handler_calls = 1
             /\ DictGet(inv.kwargs, BODY_KW) = validated.value

\* C12: body decoding is selected by the content type alone.  When it
\* contains application/json the raw body is decoded as JSON, an empty body
\* standing for the empty object (json.loads is not run on it); for every
\* other content type, the empty one included, the form data is used and
\* the raw body is never JSON-decoded, whatever it holds.
C12_DecodingByContentType ==
    (Invoked /\ inv.parse_calls = 1) =>
        LET request == inv.request
            is_json == Contains(APPLICATION_JSON, request.content_type)
        IN  /\ (is_json /\ request.body # "") =>
                  /\ inv.parsed.used = "json"
                  /\ inv.json_loads_calls = 1
                  /\ Decodes(request) => ProceededWith(json_loads(request.body).data)
            /\ (is_json /\ request.body = "") =>
                  /\ inv.parsed.used = "json"
                  /\ inv.json_loads_calls = 0
                  /\ ProceededWith(JsonObject({}))
            /\ ~is_json =>
                  /\ inv.parsed.used = "form"
                  /\ inv.json_loads_calls = 0
                  /\ ProceededWith(JsonObject(_get_form_data(request)))

\* C12 witness: a request with an empty content type, the raw body
\* "not valid json" and complete form data reached the view function with
\* the form's fields, and json.loads never ran.
C12_Witness ==
    /\ inv.caller = "direct" /\ inv.parse_calls = 1
    /\ inv.request.content_type = <<>>
    /\ inv.request.body = BODY_NOT_JSON
    /\ inv.body_type = LoginCredentials
    /\ inv.handler_calls = 1
    /\ inv.json_loads_calls = 0
    /\ DictGet(inv.kwargs, BODY_KW).fields
          = {<<"email", StrV("a@b.com")>>, <<"password", StrV("p")>>}

\* C13: the dispatcher turns only AJAXRequiredError into a response.  A
\* BodyValidationError raised by body parsing and an exception raised by the
\* view function leave the dispatch function as they were raised; they are
\* not turned into a 400 or any other response.
C13_OtherErrorsPropagate ==
    (dj.pc = "done" /\ inv.caller = "django" /\ inv.result.k = "raise"
        /\ inv.result.exc \in {"BodyValidationError", "HandlerError"}) =>
        /\ dj.outcome = inv.result
        /\ dj.outcome.k # "HttpResponse"

\* C13 witness: an AJAX POST with form data that lacks the password, sent to
\* a route whose view function declares a typed body, left the dispatcher
\* as BodyValidationError.
C13_Witness ==
    /\ dj.pc = "done" /\ dj.matching_route # 0
    /\ dj.request.POST = FORM_NO_PASSWORD
    /\ dj.request.content_type = FORM_URLENCODED
    /\ dj.outcome = BodyValidationError(<<[type |-> "missing", loc |-> "password"]>>)

\* The routes of the URL entries that wrap the view's index method.
IndexRoutes ==
    {r \in UNION {Elems(url_patterns[e].routes) : e \in 1..Len(url_patterns)} :
        r.view_func.view_func = IndexFunc.name}

\* C14: once a HueView has produced its urls, the route of its index method
\* is bound to the bare base path (the empty path), with method GET and
\* require_ajax = false, whatever other routes the router holds.
C14_IndexRouteIsPage ==
    (view.base = "HueView" /\ urls_result.k = "ok") =>
        /\ IndexRoutes # {}
        /\ \A r \in IndexRoutes :
              /\ r.method = "GET"
              /\ r.view_func.require_ajax = FALSE
              /\ r.path = <<>>
        /\ \E e \in 1..Len(url_patterns) :
              /\ url_patterns[e].path = <<>>
              /\ Elems(url_patterns[e].routes) \cap IndexRoutes # {}
        /\ view.router => routes[Len(routes)] \in IndexRoutes

\* C14 witness: a HueView whose router holds two AJAX-required fragment
\* routes has bound its index route, GET and not AJAX-required, after them.
C14_Witness ==
    /\ view = ViewClass("HueView", TRUE, "method")
    /\ urls_result.k = "ok"
    /\ Len(routes) = 3
    /\ routes[1].view_func.require_ajax /\ routes[2].view_func.require_ajax
    /\ routes[1].path = <<>> /\ routes[1].method = "POST"
    /\ routes[3].name = "index" /\ routes[3].method = "GET"
    /\ ~routes[3].view_func.require_ajax

\* The route table the last URL binding read: the view's router, or the
\* router HueView creates for a view class without one.
BoundRoutes ==
    IF view.base = "HueView" /\ ~view.router THEN <<_page(<<"/">>, IndexFunc)>>
    ELSE routes

\* Position of the first route of the table with the given path.
FirstRegistration(rs, path_str) ==
    CHOOSE i \in 1..Len(rs) :
        /\ rs[i].path = path_str
        /\ \A j \in 1..(i - 1) : rs[j].path # path_str

\* C15: URL binding produces exactly one URL entry per distinct route path
\* of the router: routes with the same path are grouped into one entry (in
\* registration order), the entries are in order of the first registration
\* of their paths, and every route belongs to exactly one entry.
C15_OneEntryPerPath ==
    urls_result.k = "ok" =>
        LET rs == BoundRoutes
            es == url_patterns
        IN  /\ \A e1, e2 \in 1..Len(es) : e1 # e2 => es[e1].path # es[e2].path
            /\ {es[e].path : e \in 1..Len(es)} = {rs[i].path : i \in 1..Len(rs)}
            /\ \A e \in 1..Len(es) :
                  es[e].routes = SelectSeq(rs, LAMBDA r : r.path = es[e].path)
            /\ \A e1, e2 \in 1..Len(es) :
                  e1 < e2 => FirstRegistration(rs, es[e1].path)
                                < FirstRegistration(rs, es[e2].path)
            /\ \A i \in 1..Len(rs) :
                  /\ Cardinality({e \in 1..Len(es) : rs[i] \in Elems(es[e].routes)}) = 1
                  /\ \E e \in 1..Len(es) :
                        es[e].path = rs[i].path /\ rs[i] \in Elems(es[e].routes)

\* C15 witness: three routes on two paths were bound to two entries; the
\* entry of the path registered first comes first, the second entry holds
\* the two routes of the other path.
C15_Witness ==
    /\ urls_result.k = "ok"
    /\ Len(routes) = 3 /\ Len(url_patterns) = 2
    /\ routes[1].path # <<>> /\ routes[2].path = <<>> /\ routes[3].path = <<>>
    /\ url_patterns[1].path = routes[1].path
    /\ url_patterns[2].routes = <<routes[2], routes[3]>>

\* The wrapped view that is running or has finished.
RunningView ==
    [view_func |-> inv.view_func, require_ajax |-> inv.require_ajax,
     body_type |-> inv.body_type]

\* C16: within one URL entry the request is handled by the first route, in
\* registration order, whose method equals the request method; a later
\* route of the entry with the same method is never invoked.
C16_FirstMatchingRouteWins ==
    (dj.pc # "idle"
        /\ \E i \in 1..Len(url_patterns[dj.entry].routes) :
              url_patterns[dj.entry].routes[i].method = dj.request.method) =>
        LET rs == url_patterns[dj.entry].routes
            m == dj.matching_route
        IN  /\ m \in 1..Len(rs)
            /\ rs[m].method = dj.request.method
            /\ \A j \in 1..(m - 1) : rs[j].method # dj.request.method
            /\ inv.caller = "django"
            /\ RunningView = rs[m].view_func
            /\ \A j \in (m + 1)..Len(rs) :
                  rs[j].view_func # rs[m].view_func => RunningView # rs[j].view_func

\* C16 witness: a GET reached an entry that holds a GET fragment route
\* registered before the GET index route; the fragment's view function was
\* invoked, not index.
C16_Witness ==
    /\ dj.pc = "done" /\ dj.matching_route = 1
    /\ dj.request.method = "GET"
    /\ Len(url_patterns[dj.entry].routes) >= 2
    /\ url_patterns[dj.entry].routes[1].method = "GET"
    /\ url_patterns[dj.entry].routes[2].method = "GET"
    /\ url_patterns[dj.entry].routes[2].name = "index"
    /\ inv.view_func = "Items"
    /\ inv.handler_calls = 1

\* C17: every registration through a route decorator appends exactly one
\* Route to the end of the router's table and changes no existing entry, so
\* that after n registrations the table holds n routes in registration
\* order, duplicates of a path and method included; each stored method is
\* upper-case.
C17_RegistrationAppends ==
    /\ [](/\ Len(routes) = Len(decorated)
          /\ \A i \in 1..Len(routes) :
                /\ routes[i].method \in {"GET", "POST", "PUT", "DELETE", "PATCH"}
                /\ routes[i].view_func.view_func = decorated[i].name)
    /\ [][decorated' # decorated =>
             /\ Len(routes') = Len(routes) + 1
             /\ SubSeq(routes', 1, Len(routes)) = routes]_vars

\* C17 witness: two view functions were registered on the same path with
\* the same method (once as "post", once through fragment_post); the table
\* holds both routes, in that order.
C17_Witness ==
    /\ Len(decorated) = 2 /\ Len(routes) = 2
    /\ routes[1].path = routes[2].path
    /\ routes[1].method = "POST" /\ routes[2].method = "POST"
    /\ routes[1].name = "items" /\ routes[2].name = "login"

\* C18: a route decorator returns the original view function, not the
\* wrapped view: calling the decorated name directly runs the view function
\* alone, with no AJAX check, no body parsing and no rendering, and hands
\* back what the view function produced.
C18_DecoratorReturnsOriginal ==
    /\ \A i \in 1..Len(decorated) :
          /\ decorated[i] \in ViewFuncs
          /\ i <= Len(routes) =>
                _wrap_view(decorated[i], routes[i].view_func.require_ajax)
                    = routes[i].view_func
    /\ inv.caller = "name" =>
          /\ inv.pc = "done"
          /\ inv.handler_calls = 1
          /\ inv.ajax_checks = 0
          /\ inv.parse_calls = 0
          /\ inv.render_calls = 0
          /\ inv.result \in DirectOutcomes

\* C18 witness: the name bound by an AJAX-required decorator to a view
\* function with a typed body was called with a request that has no AJAX
\* marker and an unparseable body, and returned the component unrendered.
C18_Witness ==
    /\ inv.caller = "name" /\ inv.pc = "done"
    /\ inv.view_func = "login" /\ inv.body_type = LoginCredentials
    /\ \E i \in 1..Len(routes) :
          /\ routes[i].view_func.view_func = "login"
          /\ routes[i].view_func.require_ajax
    /\ ~IsAjax(inv.request)
    /\ inv.result = Element("div", Text("Test"), None)

\* C19: Router.routes returns a list of its own holding the router's routes
\* in the router's order, on every call; appending to, popping from or
\* reversing a returned list changes neither the router's table nor what a
\* later call of routes returns.
C19_RoutesReturnsCopy ==
    /\ [](got.k = "list" => ~got.shared)
    /\ [][(got' # got /\ got'.edits = 0) =>
             /\ got'.items = routes
             /\ routes' = routes]_vars
    /\ [][(got.k = "list" /\ got'.edits # 0 /\ got' # got) => routes' = routes]_vars

\* C19 witness: a returned list was changed twice and differs from the
\* router's table, which still holds its two routes.
C19_Witness ==
    /\ got.k = "list" /\ got.edits = 2
    /\ Len(routes) = 2
    /\ got.items = <<routes[2], routes[1]>> \o <<ForeignRoute>>
    /\ got.items # routes

\* C20: path normalisation strips every leading slash and nothing else:
\* the result is the path without its leading run of slashes, so it never
\* starts with "/", a trailing slash after other characters is kept, and
\* "/" becomes the empty path; normalising the result again changes nothing.
C20_NormalizeIdempotent ==
    (calc.k = "normalize" /\ calc.applied >= 1) =>
        LET path == calc.path
            out == calc.once
        IN  /\ \E n \in 0..Len(path) :
                  /\ \A i \in 1..n : path[i] = "/"
                  /\ out = SubSeq(path, n + 1, Len(path))
            /\ out # <<>> => out[1] # "/"
            /\ (out # <<>> /\ path[Len(path)] = "/") => out[Len(out)] = "/"
            /\ path = <<"/">> => out = <<>>
            /\ calc.applied = 2 => calc.twice = out

\* C20 witness: "//a/" was normalised to "a/", and "a/" to itself.
C20_Witness ==
    /\ calc.k = "normalize" /\ calc.applied = 2
    /\ calc.path = <<"/", "/", "a", "/">>
    /\ calc.once = <<"a", "/">>
    /\ calc.twice = <<"a", "/">>

\* The parameter segments of a template in the syntax of a router: bracket
\* parameters (<converter:name> and <name>) for the Django router, brace
\* parameters ({name}) for the test router.
ParamSegments(parser, template) ==
    SelectSeq(template,
              LAMBDA g : g.kind = IF parser = "django" THEN "bracket" ELSE "brace")

\* C21: for a path template with N bracket/brace parameters the path parser
\* extracts exactly N parameter names, in left-to-right order of appearance;
\* a template without parameters yields an empty parameter list and an
\* unchanged path.
C21_ParserExtractsEveryParam ==
    (calc.k = "parse" /\ calc.applied = 1) =>
        LET params == ParamSegments(calc.parser, calc.template)
        IN  /\ Len(calc.result.param_names) = Len(params)
            /\ \A i \in 1..Len(params) : calc.result.param_names[i] = params[i].name
            /\ params = <<>> =>
                  /\ calc.result.param_names = <<>>
                  /\ calc.result.path = calc.path

\* The tasks whose view function has run.
Handled == {t \in 1..MaxTasks : conc.tasks[t].pc = "handled"}

\* C22: under any interleaving of concurrently handled requests, each
\* request has a view instance of its own, set up with that request; the
\* context given to the view function holds exactly the request being
\* handled and the CSRF token obtained for it; and the parsed body is that
\* of its own request.  No request sees another's instance, context or body.
C22_RequestScopedState ==
    conc.k = "tasks" =>
        /\ \A t1, t2 \in 1..MaxTasks :
              (t1 # t2 /\ conc.tasks[t1].view_instance # 0) =>
                  conc.tasks[t1].view_instance # conc.tasks[t2].view_instance
        /\ \A t \in Handled :
              LET task == conc.tasks[t]
                  data == IF Contains(APPLICATION_JSON, task.request.content_type)
                          THEN json_loads(task.request.body).data.items
                          ELSE task.request.POST
              IN  /\ task.seen.view_instance = task.view_instance
                  /\ task.seen.self_request = task.request
                  /\ task.seen.request = task.request
                  /\ task.seen.context
                        = [k |-> "HueContext", request |-> task.request,
                           csrf_token |-> task.request.csrf]
                  /\ task.seen.body.fields = data

\* C22 witness: two different requests were handled at the same time; the
\* view function of the first ran after the second had been set up, and
\* each saw its own request, CSRF token and body.
C22_Witness ==
    /\ conc.k = "tasks"
    /\ Handled = {1, 2}
    /\ conc.tasks[1].request # conc.tasks[2].request
    /\ conc.tasks[1].view_instance = 1 /\ conc.tasks[2].view_instance = 2
    /\ conc.tasks[1].seen.context.csrf_token = "csrf-1"
    /\ conc.tasks[2].seen.context.csrf_token = "csrf-2"
    /\ conc.tasks[2].seen.body.fields = FORM_OTHER_LOGIN

\* C23: there is no retry.  While a request is being dispatched the
\* matching route's handler has been invoked at most once and the renderer at
\* most once; the wrapped view only moves forward (never back to the handler
\* after it returned, never on after it finished); and the request ends in
\* exactly one outcome, a response or a propagated error, that no later step
\* replaces.
C23_NoRetry ==
    /\ [](dj.pc # "idle" =>
            /\ inv.handler_calls <= 1
            /\ inv.render_calls <= 1
            /\ (dj.pc = "done") <=> (dj.outcome # NoValue)
            /\ dj.pc = "done" => dj.outcome.k \in {"HttpResponse", "raise"})
    /\ [][(dj.pc # "idle" /\ dj'.pc # "idle") =>
            /\ inv'.handler_calls >= inv.handler_calls
            /\ inv'.render_calls >= inv.render_calls
            /\ inv.pc \in {"render", "done"} => inv'.pc \in {"render", "done"}
            /\ inv.pc = "done" => inv' = inv
            /\ dj.pc = "done" => dj' = dj]_vars

\* C23 witness: a dispatched request whose handler ran once and was rendered
\* once has ended in one response, with the handler's error status.
C23_Witness ==
    /\ dj.pc = "done"
    /\ inv.handler_calls = 1
    /\ inv.render_calls = 1
    /\ dj.outcome.k = "HttpResponse"
    /\ dj.outcome.status_code = 422

\* C24: the request-handling path leaves the router's route table alone.
\* Every step that starts, advances or ends the handling of a request,
\* whatever its outcome (200, 400, 405 or a raised error), leaves the route
\* list and the URL entries built from it exactly as they were.
C24_RequestsLeaveRoutes ==
    [][(dj' # dj \/ inv' # inv) =>
          /\ routes' = routes
          /\ url_patterns' = url_patterns]_vars

\* C24 witness: a request to a router holding at least two routes has ended
\* with a propagated error.
C24_Witness ==
    /\ dj.pc = "done"
    /\ dj.outcome.k = "raise"
    /\ Len(routes) >= 2

\* A view definition that URL generation rejects: a HueView without an
\* index attribute or with one that is not callable, a HueFragmentsView
\* without a router.
InvalidView ==
    \/ view.base = "HueView" /\ view.index \in {"missing", "str"}
    \/ view.base = "HueFragmentsView" /\ ~view.router

\* C25: URL generation for an invalid view definition fails with ValueError
\* and yields no URL entries: once urls has been accessed on such a class the
\* access has raised ValueError, and no URL entry exists.
C25_InvalidViewRaises ==
    (InvalidView /\ urls_accesses > 0) =>
        /\ urls_result = Raise("ValueError")
        /\ url_patterns = <<>>

\* C25 witness: urls was accessed on a HueView whose index is not callable
\* and whose router holds a route; the access raised ValueError.
C25_Witness ==
    /\ view = ViewClass("HueView", TRUE, "str")
    /\ urls_accesses > 0
    /\ routes # <<>>
    /\ urls_result = Raise("ValueError")

\* The class names an argument contributes, in order: a non-empty string
\* itself, the non-empty elements of a list, the non-empty keys of a dict
\* whose value is true; None contributes nothing.
Contribution(arg) ==
    CASE arg.k = "None" -> <<>>
      [] arg.k = "str" -> IF arg.value = <<>> THEN <<>> ELSE <<arg.value>>
      [] arg.k = "list" ->
            SelectSeq(arg.items, LAMBDA c : c # <<>>)
      [] arg.k = "dict" ->
            LET kept == SelectSeq(arg.items, LAMBDA it : it[2] /\ it[1] # <<>>)
            IN  [i \in 1..Len(kept) |-> kept[i][1]]

\* The contributions of the arguments, in argument order.
RECURSIVE Contributions(_)
Contributions(args) ==
    IF args = <<>> THEN <<>>
    ELSE Contribution(Head(args)) \o Contributions(Tail(args))

\* A text cut at its spaces (str.split(" ")).
RECURSIVE SplitAtSpaces(_, _)
SplitAtSpaces(text, word) ==
    IF text = <<>> THEN <<word>>
    ELSE IF Head(text) = " " THEN <<word>> \o SplitAtSpaces(Tail(text), <<>>)
    ELSE SplitAtSpaces(Tail(text), Append(word, Head(text)))

\* C26: classnames returns the class names contributed by its arguments, in
\* argument order, joined by single spaces: cutting the result at its spaces
\* gives back exactly the contributed names.  When nothing is contributed
\* (no arguments, or only None, empty strings, empty lists and false-valued
\* or empty keys) the result is the empty string.
C26_ClassnamesJoinsContributions ==
    (calc.k = "classnames" /\ calc.applied = 1) =>
        LET names == Contributions(calc.args)
        IN  IF names = <<>>
            THEN calc.result = <<>>
            ELSE SplitAtSpaces(calc.result, <<>>) = names

\* C26 witness: classnames was called with a string and a dict holding a
\* false-valued key, an empty key and a true-valued key.
C26_Witness ==
    /\ calc.k = "classnames"
    /\ calc.applied = 1
    /\ calc.args = <<ArgStr(BAR),
                     ArgDict(<<<<BAR, FALSE>>, <<<<>>, TRUE>>, <<FOO, TRUE>>>>)>>
    /\ calc.result = BAR \o <<" ">> \o FOO

\* The request being dispatched is a GET without AJAX headers to the base
\* path of a HueView.
PlainGetToBasePath ==
    /\ view.base = "HueView"
    /\ dj.pc # "idle"
    /\ dj.request.method = "GET"
    /\ NoAjaxHeaders(dj.request)
    /\ url_patterns[dj.entry].path = <<>>

\* C27: for every HueView, a GET without AJAX headers to the view's base
\* path is served by the index handler, whatever routes the router already
\* holds: the dispatcher selects the index route, and when index returns its
\* page the response has status 200.
C27_PlainGetServedByIndex ==
    PlainGetToBasePath =>
        /\ dj.matching_route # 0
        /\ SelectedRoute.view_func.view_func = IndexFunc.name
        /\ (dj.pc = "done" /\ IsPlainComponent(inv.view_func_result)) =>
              /\ dj.outcome.k = "HttpResponse"
              /\ dj.outcome.status_code = 200

\* C28: accessing urls on a HueView that defines a router is idempotent on
\* the router: once urls has been read, a further read leaves the route list
\* unchanged, and the list holds exactly one index route however many times
\* urls was read.
C28_UrlsAccessIdempotent ==
    /\ []((view.base = "HueView" /\ view.router /\ urls_result.k = "ok") =>
            Cardinality({i \in 1..Len(routes) : routes[i].name = "index"}) = 1)
    /\ [][(view.base = "HueView" /\ view.router /\ urls_accesses >= 1
                /\ urls_accesses' > urls_accesses) =>
            routes' = routes]_vars

\* The methods of the routes of the URL entry the request reached.
EntryMethods == {r.method : r \in Elems(url_patterns[dj.entry].routes)}

\* C29: the dispatcher checks the method before the AJAX requirement.  A
\* request without AJAX headers whose method matches no route of its URL
\* entry is answered with 405, never 400, and no wrapped view is entered for
\* it; a 400 answer is given only after a route with the request's method
\* has been selected.
C29_MethodBeforeAjax ==
    (dj.pc = "done") =>
        /\ (NoAjaxHeaders(dj.request) /\ dj.request.method \notin EntryMethods) =>
              /\ dj.outcome = HttpResponse("Method not allowed", 405)
              /\ inv.ajax_checks = 0
        /\ (dj.outcome.k = "HttpResponse" /\ dj.outcome.status_code = 400) =>
              /\ dj.matching_route # 0
              /\ SelectedRoute.method = dj.request.method

\* C29 witness: a POST without AJAX headers reached an entry whose only
\* routes are GET routes, one of them requiring AJAX, and was answered 405.
C29_Witness ==
    /\ dj.pc = "done"
    /\ dj.request.method = "POST"
    /\ NoAjaxHeaders(dj.request)
    /\ EntryMethods = {"GET"}
    /\ \E r \in Elems(url_patterns[dj.entry].routes) : r.view_func.require_ajax
    /\ dj.outcome.status_code = 405

\* The URL keyword arguments the wrapped view was called with (the parsed
\* body is added by the wrapper, not by the dispatcher).
ReceivedKwargs == {p \in inv.kwargs : p[1] # BODY_KW}

\* C30: the dispatcher passes to the handler exactly the URL keyword
\* arguments whose names are in the selected route's path_params, values
\* unchanged: nothing else is passed, every other URL keyword argument is
\* dropped, and every captured argument named in path_params is passed.
C30_OnlyPathParamsPassed ==
    (dj.pc # "idle" /\ dj.matching_route # 0) =>
        LET names == Elems(SelectedRoute.path_params)
        IN  /\ inv.caller = "django"
            /\ \A p \in ReceivedKwargs : p \in dj.kwargs /\ p[1] \in names
            /\ \A p \in dj.kwargs :
                  /\ p[1] \in names => p \in ReceivedKwargs
                  /\ p[1] \notin names => p[1] \notin DictKeys(ReceivedKwargs)

\* C30 witness: the resolver supplied the route's path parameter and a
\* keyword argument of an including pattern; the handler ran with the path
\* parameter only.
C30_Witness ==
    /\ dj.pc # "idle" /\ dj.matching_route # 0
    /\ inv.handler_calls = 1
    /\ Cardinality(dj.kwargs) = 2
    /\ SelectedRoute.path_params = <<<<"n">>>>
    /\ ReceivedKwargs = {<<<<"n">>, StrV("42")>>}

====
